---- MODULE Spec2Model ----
(***************************************************************************)
(* Model of kage, a Shadowsocks 2022 client: the AEAD cipher context with  *)
(* its 96-bit little-endian nonce counter (shadowsocks/cipher.go) and the  *)
(* UDP relayer with its per-client session table (shadowsocks/tcp.go,      *)
(* Relayer and Session), the SOCKS5 negotiation of an inbound connection   *)
(* (socks5 TCPHandShake, handler Handshake), and the stream connection to  *)
(* the server: its server handshake and its bridge (ShadowTCPConn).        *)
(***************************************************************************)
EXTENDS Integers, Sequences, FiniteSets, TLC

VARIABLES
    \* ---- cipher contexts (cipher.go) ----
    enCipher,     \* encrypt-side Cipher: [key, salt, method, counter]
    deCipher,     \* decrypt-side Cipher built from the same key, salt, method
    wire,         \* ciphertexts sealed and not yet opened, oldest first
    lastOpen,     \* outcome of the latest Open / OpenWithNonce call
    cstat,        \* counter advances on each side, and whether Seal and Open went in lockstep
    probe,        \* a Counter value on which Count is applied directly
    \* ---- UDP relayer (tcp.go) ----
    ctxDone,      \* the context handed to Relay has been cancelled
    lnClosed,     \* r.ln has been closed
    sessionMap,   \* r.sessionMap: client address -> session id, or NoSession
    sess,         \* every Session created so far, by id (creation order)
    task,         \* program position and locals of each task calling loadOrStoreSession
    closer,       \* the two invocations of Relayer.Close: ctx watcher and Relay's defer
    mon,          \* monitorSessions: position, now, keys still to visit, sessions seen in this Range
    clock,        \* time.Now().Unix()
    tickPending,  \* ticker.C holds a tick
    \* ---- tasks sharing one cipher context (cipher.go) ----
    sealers,      \* position and held nonce of each task inside Cipher.Seal
    \* ---- inbound connection and stream connection (socks5, handler, tcp.go) ----
    s5,           \* the handshaker on one inbound connection: position, bytes read and written
    shs,          \* one server handshake: the response received and the outcome of reading it
    bridge,       \* one ShadowTCPConn.Stream call: its tasks, errChan, the two connections
    \* ---- wire formats (tcp.go, cipher.go, handler) ----
    ups,          \* one UDP session's packets: its contexts, what wrap sent, what unwrap returned
    call,         \* one call of a function of its arguments alone: the arguments, the result
    stc           \* one ShadowTCPConn: its contexts, what it wrote, what its reader was given

cipherVars == <<enCipher, deCipher, wire, lastOpen, cstat, probe>>
udpVars == <<ctxDone, lnClosed, sessionMap, sess, task, closer, mon, clock, tickPending>>
tcpVars == <<s5, shs, bridge>>
wireVars == <<ups, call, stc>>
vars == <<enCipher, deCipher, wire, lastOpen, cstat, probe,
          ctxDone, lnClosed, sessionMap, sess, task, closer, mon, clock, tickPending,
          sealers, s5, shs, bridge, ups, call, stc>>

----------------------------------------------------------------------------
(* Components that take no part in a run stay at these values *)

Sealers == {"t1", "t2"}   \* tasks that call Seal on one shared context

SealersIdle == sealers = [t \in Sealers |-> [pc |-> "off"]]

TcpIdle == s5 = [pc |-> "off"] /\ shs = [pc |-> "off"] /\ bridge = [pc |-> "off"]

WireIdle == ups = [pc |-> "off"] /\ call = [fn |-> "none"] /\ stc = [pc |-> "off"]

----------------------------------------------------------------------------
(* Bounds *)

MaxSeals == 3        \* counter advances on the encrypt side
MaxWire == 2         \* ciphertexts in flight
MaxProbe == 1        \* Count calls applied to the probed Counter

----------------------------------------------------------------------------
(* cipher.go *)

NonceSize == 12
Payloads == {"p1", "p2"}
Methods == {"2022-blake3-aes-128-gcm", "2022-blake3-aes-256-gcm",
            "2022-blake3-chacha20-poly1305"}
Keys == {[id |-> "k16", len |-> 16], [id |-> "k32", len |-> 32]}
Salts == {"s1"}
NoCipher == [key |-> "none"]

RECURSIVE Repeat(_, _)
Repeat(b, n) ==
    IF n = 0 THEN << >>
    ELSE IF n % 2 = 0 THEN LET h == Repeat(b, n \div 2) IN h \o h
    ELSE <<b>> \o Repeat(b, n - 1)

\* new(Counter): the zero value of [12]byte
NewCounter == Repeat(0, NonceSize)

\* the loop of Counter.Count over c.buf, from index i on
RECURSIVE CountFrom(_, _)
CountFrom(buf, i) ==
    IF i > Len(buf) THEN buf
    ELSE IF buf[i] = 255 THEN CountFrom([buf EXCEPT ![i] = 0], i + 1)
    ELSE [buf EXCEPT ![i] = buf[i] + 1]

CountNoCarry(buf) == [buf EXCEPT ![1] = (buf[1] + 1) % 256]

Count(buf) == CountFrom(buf, 1)

\* Counter.Nonce: a copy of the buffer
Nonce(c) == c.counter

\* BLAKE3 derive-key, as an injective function of (key, salt)
Blake3DeriveKey(key, salt) == <<key.id, salt>>

KeySizeOfAlways32(method) == 32

\* the key length each constructor asks for
KeySizeOf(method) == IF method = "2022-blake3-aes-128-gcm" THEN 16 ELSE 32

NewCipher(key, salt, method) ==
    IF method \notin Methods THEN [err |-> "ErrCipherMethod", c |-> NoCipher]
    ELSE IF key.len # KeySizeOf(method) THEN [err |-> "ErrCipherKeySize", c |-> NoCipher]
    ELSE [err |-> "nil",
          c |-> [key |-> key, salt |-> salt, method |-> method, counter |-> NewCounter]]

\* c.aead.Seal(dst, nonce, plaintext, nil): the sealed box appended to dst
AeadSeal(c, dst, nonce, plaintext) ==
    Append(dst, [subkey |-> Blake3DeriveKey(c.key, c.salt), alg |-> c.method,
                 nonce |-> nonce, pt |-> plaintext, tag |-> "ok"])

\* c.aead.Open(dst, nonce, ciphertext, nil): authenticates key, nonce and tag
AeadOpen(c, nonce, box) ==
    IF /\ box.subkey = Blake3DeriveKey(c.key, c.salt)
       /\ box.alg = c.method
       /\ box.nonce = nonce
       /\ box.tag = "ok"
    THEN [err |-> "nil", pt |-> box.pt]
    ELSE [err |-> "cipher: message authentication failed", pt |-> "nil"]

SealCountsFirst(c, dst, plaintext) ==
    [out |-> AeadSeal(c, dst, Count(c.counter), plaintext),
     c |-> [c EXCEPT !.counter = Count(c.counter)]]

\* Cipher.Seal: seal under the current nonce, then Count
Seal(c, dst, plaintext) ==
    [out |-> AeadSeal(c, dst, Nonce(c), plaintext),
     c |-> [c EXCEPT !.counter = Count(c.counter)]]

\* Cipher.SealWithNonce: seal under the given nonce, then Count
SealWithNonce(c, dst, nonce, plaintext) ==
    [out |-> AeadSeal(c, dst, nonce, plaintext),
     c |-> [c EXCEPT !.counter = Count(c.counter)]]

OpenIgnoresNonce(c, box) ==
    LET r == AeadOpen(c, box.nonce, box)
    IN  IF r.err # "nil" THEN [err |-> r.err, pt |-> "nil", c |-> c]
        ELSE [err |-> "nil", pt |-> r.pt, c |-> [c EXCEPT !.counter = Count(c.counter)]]

\* Cipher.Open: open under the current nonce; Count only on success
Open(c, box) ==
    LET r == AeadOpen(c, Nonce(c), box)
    IN  IF r.err # "nil" THEN [err |-> r.err, pt |-> "nil", c |-> c]
        ELSE [err |-> "nil", pt |-> r.pt, c |-> [c EXCEPT !.counter = Count(c.counter)]]

OpenWithNonceAlwaysCounts(c, nonce, box) ==
    LET r == AeadOpen(c, nonce, box)
    IN  [err |-> r.err, pt |-> IF r.err = "nil" THEN r.pt ELSE "nil",
         c |-> [c EXCEPT !.counter = Count(c.counter)]]

\* Cipher.OpenWithNonce: open under the given nonce; Count only on success
OpenWithNonce(c, nonce, box) ==
    LET r == AeadOpen(c, nonce, box)
    IN  IF r.err # "nil" THEN [err |-> r.err, pt |-> "nil", c |-> c]
        ELSE [err |-> "nil", pt |-> r.pt, c |-> [c EXCEPT !.counter = Count(c.counter)]]

----------------------------------------------------------------------------
(* Little-endian arithmetic on byte strings, independent of Count *)

\* buf + n  (mod 256^Len(buf)), byte 1 least significant
RECURSIVE AddLE(_, _)
AddLE(buf, n) ==
    IF buf = << >> THEN << >>
    ELSE LET t == buf[1] + n
         IN  <<t % 256>> \o AddLE(Tail(buf), t \div 256)

\* the 12-byte little-endian encoding of n
LE(n) == AddLE(Repeat(0, NonceSize), n)

AllFF == Repeat(255, NonceSize)

\* Counter values from which Count is exercised across byte carries and the wrap
ProbeStarts == {LE(255), LE(65535), [AllFF EXCEPT ![1] = 254], AllFF}

----------------------------------------------------------------------------
(* Cipher use: one context pair, as in TestCipher_Seal *)

NoOpen == [kind |-> "none", err |-> "nil", pt |-> "nil", want |-> "nil", skew |-> 0]
NoStat == [adv |-> 0, opens |-> 0, lock |-> TRUE]

CipherIdle ==
    /\ enCipher = NoCipher /\ deCipher = NoCipher /\ wire = << >>
    /\ lastOpen = NoOpen
    /\ cstat = NoStat
    /\ probe = [start |-> NewCounter, n |-> 0, buf |-> NewCounter]

\* TestCipher_Seal: a 32-byte key, a salt, aes-256-gcm; two contexts from the same inputs
InitCipher ==
    /\ \E key \in {k \in Keys : k.len = 32}, salt \in Salts :
          /\ enCipher = NewCipher(key, salt, "2022-blake3-aes-256-gcm").c
          /\ deCipher = NewCipher(key, salt, "2022-blake3-aes-256-gcm").c
    /\ wire = << >>
    /\ lastOpen = NoOpen
    /\ cstat = NoStat
    /\ \E b \in ProbeStarts : probe = [start |-> b, n |-> 0, buf |-> b]

\* ciphertext := enCipher.Seal(nil, data)
DoSeal(p) ==
    /\ cstat.adv < MaxSeals /\ Len(wire) < MaxWire
    /\ LET r == Seal(enCipher, << >>, p)
       IN  /\ enCipher' = r.c
           /\ wire' = Append(wire, [box |-> r.out[1], want |-> p, at |-> cstat.adv])
    /\ cstat' = [cstat EXCEPT !.adv = @ + 1]
    /\ UNCHANGED <<deCipher, lastOpen, probe>>
    /\ UNCHANGED <<sealers, udpVars, tcpVars, wireVars>>

\* enCipher.SealWithNonce(nil, nonce, data), nonce supplied by the caller
DoSealWithNonce(p, n) ==
    /\ cstat.adv < MaxSeals /\ Len(wire) < MaxWire
    /\ LET r == SealWithNonce(enCipher, << >>, LE(n), p)
       IN  /\ enCipher' = r.c
           /\ wire' = Append(wire, [box |-> r.out[1], want |-> p, at |-> n])
    /\ cstat' = [cstat EXCEPT !.adv = @ + 1, !.lock = FALSE]
    /\ UNCHANGED <<deCipher, lastOpen, probe>>
    /\ UNCHANGED <<sealers, udpVars, tcpVars, wireVars>>

\* enCipher.counter.Count(), as in TestCipher_Seal/open error
ExtraCount ==
    /\ cstat.adv < MaxSeals
    /\ enCipher' = [enCipher EXCEPT !.counter = Count(enCipher.counter)]
    /\ cstat' = [cstat EXCEPT !.adv = @ + 1, !.lock = FALSE]
    /\ UNCHANGED <<deCipher, wire, lastOpen, probe>>
    /\ UNCHANGED <<sealers, udpVars, tcpVars, wireVars>>

\* a ciphertext altered in transit
Corrupt ==
    /\ wire # << >> /\ wire[1].box.tag = "ok"
    /\ wire' = [wire EXCEPT ![1].box.tag = "forged"]
    /\ cstat' = [cstat EXCEPT !.lock = FALSE]
    /\ UNCHANGED <<enCipher, deCipher, lastOpen, probe>>
    /\ UNCHANGED <<sealers, udpVars, tcpVars, wireVars>>

\* plaintext, err := deCipher.Open(nil, ciphertext)
DoOpen ==
    /\ wire # << >>
    /\ LET r == Open(deCipher, wire[1].box)
       IN  /\ deCipher' = r.c
           /\ lastOpen' = [kind |-> "Open", err |-> r.err, pt |-> r.pt,
                           want |-> wire[1].want, skew |-> wire[1].at - cstat.opens]
           /\ cstat' = [cstat EXCEPT !.opens = IF r.err = "nil" THEN @ + 1 ELSE @]
    /\ wire' = Tail(wire)
    /\ UNCHANGED <<enCipher, probe>>
    /\ UNCHANGED <<sealers, udpVars, tcpVars, wireVars>>

\* plaintext, err := deCipher.OpenWithNonce(nil, nonce, ciphertext)
DoOpenWithNonce(n) ==
    /\ wire # << >>
    /\ LET r == OpenWithNonce(deCipher, LE(n), wire[1].box)
       IN  /\ deCipher' = r.c
           /\ lastOpen' = [kind |-> "OpenWithNonce", err |-> r.err, pt |-> r.pt,
                           want |-> wire[1].want, skew |-> wire[1].at - n]
           /\ cstat' = [cstat EXCEPT !.opens = IF r.err = "nil" THEN @ + 1 ELSE @,
                                     !.lock = FALSE]
    /\ wire' = Tail(wire)
    /\ UNCHANGED <<enCipher, probe>>
    /\ UNCHANGED <<sealers, udpVars, tcpVars, wireVars>>

\* c.Count() on a Counter holding an arbitrary value
ProbeCount ==
    /\ probe.n < MaxProbe
    /\ probe' = [probe EXCEPT !.n = @ + 1, !.buf = Count(probe.buf)]
    /\ UNCHANGED <<enCipher, deCipher, wire, lastOpen, cstat>>
    /\ UNCHANGED <<sealers, udpVars, tcpVars, wireVars>>

NonceChoices == 0 .. 1

NextCipher ==
    \/ \E p \in Payloads : DoSeal(p)
    \/ \E p \in Payloads, n \in NonceChoices : DoSealWithNonce(p, n)
    \/ ExtraCount
    \/ Corrupt
    \/ DoOpen
    \/ \E n \in NonceChoices : DoOpenWithNonce(n)
    \/ ProbeCount

(* ---- Cipher.Seal called by several tasks on one context ---- *)

\* Seal, first statement: c.counter.Nonce() under the counter's lock, then c.aead.Seal
SealNonce(t, p) ==
    /\ sealers[t].pc = "idle"
    /\ Len(wire) < MaxSeals
    /\ wire' = Append(wire, [box |-> AeadSeal(enCipher, << >>, Nonce(enCipher), p)[1],
                             want |-> p, at |-> cstat.adv])
    /\ sealers' = [sealers EXCEPT ![t].pc = "count"]
    /\ UNCHANGED <<enCipher, deCipher, lastOpen, cstat, probe>>
    /\ UNCHANGED <<udpVars, tcpVars, wireVars>>

\* Seal, second statement: c.counter.Count() under the counter's lock, then return
SealCount(t) ==
    /\ sealers[t].pc = "count"
    /\ enCipher' = [enCipher EXCEPT !.counter = Count(enCipher.counter)]
    /\ cstat' = [cstat EXCEPT !.adv = @ + 1]
    /\ sealers' = [sealers EXCEPT ![t].pc = "idle"]
    /\ UNCHANGED <<deCipher, wire, lastOpen, probe>>
    /\ UNCHANGED <<udpVars, tcpVars, wireVars>>

NextSealRace ==
    \/ \E t \in Sealers, p \in Payloads : SealNonce(t, p)
    \/ \E t \in Sealers : SealCount(t)

InitSealRace == InitCipher /\ sealers = [t \in Sealers |-> [pc |-> "idle"]]

----------------------------------------------------------------------------
(* tcp.go: Relayer, Session *)

SessionTimeout == 240     \* 4 * time.Minute, in seconds
CleanupInterval == 60     \* time.Minute, in seconds

Addrs == {"a1", "a2"}     \* client source addresses
Callers == {"c1", "c2"}   \* tasks that call loadOrStoreSession concurrently
TaskIds == {"relay"} \cup Callers
NoSession == 0

MaxSessions == 2     \* sessions created in one run
MaxIdleSessions == 1 \* sessions created in one run that spans several cleanup intervals
MaxTicks == 5        \* cleanup intervals that elapse in one run

SessIds == 1 .. Len(sess)
SessSlots == 1 .. MaxSessions
Present == {a \in Addrs : sessionMap[a] # NoSession}

IdleTask == [pc |-> "off", addr |-> "a1", s |-> NoSession, mine |-> NoSession,
             lost |-> FALSE, err |-> "nil", res |-> "none"]
IdleCloser == [pc |-> "off", todo |-> {}, snap |-> {}]
IdleMon == [pc |-> "off", now |-> 0, todo |-> {}, snap |-> {}, k |-> "a1",
            s |-> NoSession, seen |-> {}]

UdpIdle ==
    /\ ctxDone = FALSE /\ lnClosed = FALSE
    /\ sessionMap = [a \in Addrs |-> NoSession]
    /\ sess = << >>
    /\ task = [t \in TaskIds |-> IdleTask]
    /\ closer = [c \in {"watcher", "defer"} |-> IdleCloser]
    /\ mon = IdleMon
    /\ clock = 0 /\ tickPending = FALSE

\* NewRelayer succeeded and Relay has started its watcher and its monitor
InitRelay ==
    /\ ctxDone = FALSE /\ lnClosed = FALSE
    /\ sessionMap = [a \in Addrs |-> NoSession]
    /\ sess = << >>
    /\ task = [t \in TaskIds |-> IF t = "relay" THEN [IdleTask EXCEPT !.pc = "read"]
                                 ELSE IdleTask]
    /\ closer = [c \in {"watcher", "defer"} |->
                    IF c = "watcher" THEN [IdleCloser EXCEPT !.pc = "wait"] ELSE IdleCloser]
    /\ mon = [IdleMon EXCEPT !.pc = "wait"]
    /\ clock = 0 /\ tickPending = FALSE

\* the caller's context is cancelled
Cancel ==
    /\ ~ctxDone
    /\ ctxDone' = TRUE
    /\ UNCHANGED <<lnClosed, sessionMap, sess, task, closer, mon, clock, tickPending>>
    /\ UNCHANGED <<cipherVars, sealers, tcpVars, wireVars>>

\* a cleanup interval elapses and the ticker delivers a tick; a Range over the table
\* is taken to be shorter than one interval, so none elapses while the monitor is in one
Advance ==
    /\ clock < MaxTicks * CleanupInterval
    /\ mon.pc \in {"wait", "stopped"}
    /\ clock' = clock + CleanupInterval
    /\ tickPending' = TRUE
    /\ UNCHANGED <<ctxDone, lnClosed, sessionMap, sess, task, closer, mon>>
    /\ UNCHANGED <<cipherVars, sealers, tcpVars, wireVars>>

(* ---- Relay: the listener loop ---- *)

\* n, clientAddr, err := r.ln.ReadFrom(buf) with err == nil
RelayRecv(a) ==
    /\ task["relay"].pc = "read" /\ ~lnClosed
    /\ task' = [task EXCEPT !["relay"].pc = "load", !["relay"].addr = a,
                            !["relay"].err = "nil"]
    /\ UNCHANGED <<ctxDone, lnClosed, sessionMap, sess, closer, mon, clock, tickPending>>
    /\ UNCHANGED <<cipherVars, sealers, tcpVars, wireVars>>

\* ReadFrom fails: net.ErrClosed once the listener is closed, another error before
RelayReadErr(kind) ==
    /\ task["relay"].pc = "read"
    /\ kind = "closed" <=> lnClosed
    /\ IF ctxDone
       THEN /\ task' = [task EXCEPT !["relay"].pc = "defer", !["relay"].err = kind,
                                    !["relay"].res = "ctx.Err()"]
            /\ closer' = [closer EXCEPT !["defer"].pc = "ln"]
       ELSE IF kind = "closed"
       THEN /\ task' = [task EXCEPT !["relay"].pc = "defer", !["relay"].err = kind,
                                    !["relay"].res = "nil"]
            /\ closer' = [closer EXCEPT !["defer"].pc = "ln"]
       ELSE /\ task' = [task EXCEPT !["relay"].err = kind]
            /\ UNCHANGED closer
    /\ UNCHANGED <<ctxDone, lnClosed, sessionMap, sess, mon, clock, tickPending>>
    /\ UNCHANGED <<cipherVars, sealers, tcpVars, wireVars>>

AfterLoad(p) == IF p = "relay" THEN "wrap" ELSE "ret"

\* a task other than the listener loop enters loadOrStoreSession(a)
CallerCall(p, a) ==
    /\ p \in Callers /\ task[p].pc \in {"idle", "ret"}
    /\ task' = [task EXCEPT ![p] = [IdleTask EXCEPT !.pc = "load", !.addr = a]]
    /\ UNCHANGED <<ctxDone, lnClosed, sessionMap, sess, closer, mon, clock, tickPending>>
    /\ UNCHANGED <<cipherVars, sealers, tcpVars, wireVars>>

\* loadOrStoreSession: r.sessionMap.Load(k)
LosLoad(p) ==
    /\ task[p].pc = "load"
    /\ IF sessionMap[task[p].addr] # NoSession
       THEN task' = [task EXCEPT ![p].pc = AfterLoad(p), ![p].s = sessionMap[task[p].addr]]
       ELSE task' = [task EXCEPT ![p].pc = "create"]
    /\ UNCHANGED <<ctxDone, lnClosed, sessionMap, sess, closer, mon, clock, tickPending>>
    /\ UNCHANGED <<cipherVars, sealers, tcpVars, wireVars>>

\* NewSession: the Session value, its reader task started
NewSession(a) == [addr |-> a, closed |-> FALSE, lastActive |-> clock,
                  rpc |-> "read", stored |-> FALSE]

\* loadOrStoreSession: NewSalt, NewCipher, NewSession; any of them may fail
LosCreate(p, ok) ==
    /\ task[p].pc = "create"
    /\ IF ok
       THEN /\ sess' = Append(sess, NewSession(task[p].addr))
            /\ task' = [task EXCEPT ![p].pc = "store", ![p].s = Len(sess) + 1,
                                    ![p].mine = Len(sess) + 1]
       ELSE /\ task' = [task EXCEPT ![p] = IF p = "relay" THEN [IdleTask EXCEPT !.pc = "read"]
                                             ELSE [@ EXCEPT !.pc = "ret", !.err = "create failed"]]
            /\ UNCHANGED sess
    /\ UNCHANGED <<ctxDone, lnClosed, sessionMap, closer, mon, clock, tickPending>>
    /\ UNCHANGED <<cipherVars, sealers, tcpVars, wireVars>>

\* the create step of the listener loop, of the listener loop in a long run, of a caller
RelayCreate(ok) == (ok => Len(sess) < MaxSessions) /\ LosCreate("relay", ok)

IdleCreate(ok) == (ok => Len(sess) < MaxIdleSessions) /\ LosCreate("relay", ok)

CallerCreate(p, ok) == (ok => Len(sess) < MaxSessions) /\ LosCreate(p, ok)

\* loadOrStoreSession: r.sessionMap.LoadOrStore(k, s); the loser closes its own session
LosStore(p) ==
    /\ task[p].pc = "store"
    /\ IF sessionMap[task[p].addr] # NoSession
       THEN /\ sess' = [sess EXCEPT ![task[p].s].closed = TRUE]
            /\ task' = [task EXCEPT ![p].pc = AfterLoad(p), ![p].lost = TRUE,
                                    ![p].s = sessionMap[task[p].addr]]
            /\ UNCHANGED sessionMap
       ELSE /\ sessionMap' = [sessionMap EXCEPT ![task[p].addr] = task[p].s]
            /\ sess' = [sess EXCEPT ![task[p].s].stored = TRUE]
            /\ task' = [task EXCEPT ![p].pc = AfterLoad(p)]
    /\ UNCHANGED <<ctxDone, lnClosed, closer, mon, clock, tickPending>>
    /\ UNCHANGED <<cipherVars, sealers, tcpVars, wireVars>>

\* s.wrapAndWrite(buf[:n]): HandleInbound, wrap, serverConn.Write, updateActivity
RelayWrap(ok) ==
    /\ task["relay"].pc = "wrap"
    /\ LET s == task["relay"].s
       IN  IF ok
           THEN /\ ~sess[s].closed
                /\ sess' = [sess EXCEPT ![s].lastActive = clock]
                /\ task' = [task EXCEPT !["relay"] = [IdleTask EXCEPT !.pc = "read"]]
           ELSE /\ task' = [task EXCEPT !["relay"].pc = "failClose"]
                /\ UNCHANGED sess
    /\ UNCHANGED <<ctxDone, lnClosed, sessionMap, closer, mon, clock, tickPending>>
    /\ UNCHANGED <<cipherVars, sealers, tcpVars, wireVars>>

\* Relay, after wrapAndWrite failed: _ = s.Close()
RelayFailClose ==
    /\ task["relay"].pc = "failClose"
    /\ sess' = [sess EXCEPT ![task["relay"].s].closed = TRUE]
    /\ task' = [task EXCEPT !["relay"].pc = "failDelete"]
    /\ UNCHANGED <<ctxDone, lnClosed, sessionMap, closer, mon, clock, tickPending>>
    /\ UNCHANGED <<cipherVars, sealers, tcpVars, wireVars>>

\* Relay, after wrapAndWrite failed: r.sessionMap.Delete(clientAddr.String())
RelayFailDelete ==
    /\ task["relay"].pc = "failDelete"
    /\ sessionMap' = [sessionMap EXCEPT ![task["relay"].addr] = NoSession]
    /\ task' = [task EXCEPT !["relay"] = [IdleTask EXCEPT !.pc = "read"]]
    /\ UNCHANGED <<ctxDone, lnClosed, sess, closer, mon, clock, tickPending>>
    /\ UNCHANGED <<cipherVars, sealers, tcpVars, wireVars>>

(* ---- Session.relayFromServer: one reader task per session ---- *)

\* one iteration: Read, unwrap, HandleOutbound, ln.WriteTo, updateActivity
ReaderRecv(s, ok) ==
    /\ s \in SessIds /\ sess[s].rpc = "read" /\ ~sess[s].closed
    /\ IF ok
       THEN /\ ~lnClosed
            /\ sess' = [sess EXCEPT ![s].lastActive = clock]
       ELSE sess' = [sess EXCEPT ![s].rpc = "exit"]
    /\ UNCHANGED <<ctxDone, lnClosed, sessionMap, task, closer, mon, clock, tickPending>>
    /\ UNCHANGED <<cipherVars, sealers, tcpVars, wireVars>>

\* s.serverConn.Read fails because the socket has been closed
ReaderReadErr(s) ==
    /\ s \in SessIds /\ sess[s].rpc = "read" /\ sess[s].closed
    /\ sess' = [sess EXCEPT ![s].rpc = "exit"]
    /\ UNCHANGED <<ctxDone, lnClosed, sessionMap, task, closer, mon, clock, tickPending>>
    /\ UNCHANGED <<cipherVars, sealers, tcpVars, wireVars>>

\* the deferred function: _ = s.Close()
ReaderExitClose(s) ==
    /\ s \in SessIds /\ sess[s].rpc = "exit"
    /\ sess' = [sess EXCEPT ![s].closed = TRUE, ![s].rpc = "delete"]
    /\ UNCHANGED <<ctxDone, lnClosed, sessionMap, task, closer, mon, clock, tickPending>>
    /\ UNCHANGED <<cipherVars, sealers, tcpVars, wireVars>>

ReaderDeleteEvery(m, s) == [a \in Addrs |-> NoSession]

\* s.r.sessionMap.Delete(s.clientAddr.String()): by key, whatever is stored there
ReaderDelete(m, s) == [m EXCEPT ![sess[s].addr] = NoSession]

\* the deferred function: the Delete
ReaderExitDelete(s) ==
    /\ s \in SessIds /\ sess[s].rpc = "delete"
    /\ sessionMap' = ReaderDelete(sessionMap, s)
    /\ sess' = [sess EXCEPT ![s].rpc = "done"]
    /\ UNCHANGED <<ctxDone, lnClosed, task, closer, mon, clock, tickPending>>
    /\ UNCHANGED <<cipherVars, sealers, tcpVars, wireVars>>

(* ---- Relayer.Close: run by the ctx watcher and by Relay's defer ---- *)

\* the watcher goroutine: <-ctx.Done()
WatcherWake ==
    /\ closer["watcher"].pc = "wait" /\ ctxDone
    /\ closer' = [closer EXCEPT !["watcher"].pc = "ln"]
    /\ UNCHANGED <<ctxDone, lnClosed, sessionMap, sess, task, mon, clock, tickPending>>
    /\ UNCHANGED <<cipherVars, sealers, tcpVars, wireVars>>

\* r.ln.Close(); a second Close of the listener fails and Close returns that error
CloseLn(c) ==
    /\ closer[c].pc = "ln"
    /\ IF lnClosed
       THEN /\ closer' = [closer EXCEPT ![c].pc = "done"]
            /\ UNCHANGED lnClosed
       ELSE /\ lnClosed' = TRUE
            /\ closer' = [closer EXCEPT ![c].pc = "range", ![c].todo = Addrs,
                                        ![c].snap = Present]
    /\ UNCHANGED <<ctxDone, sessionMap, sess, task, mon, clock, tickPending>>
    /\ UNCHANGED <<cipherVars, sealers, tcpVars, wireVars>>

\* r.sessionMap.Range in Close: one key; a key stored after the Range began may be missed
CloseVisit(c, k, see) ==
    /\ closer[c].pc = "range" /\ k \in closer[c].todo
    /\ k \in closer[c].snap => see
    /\ IF see /\ sessionMap[k] # NoSession
       THEN sess' = [sess EXCEPT ![sessionMap[k]].closed = TRUE]
       ELSE UNCHANGED sess
    /\ closer' = [closer EXCEPT ![c] = IF closer[c].todo = {k}
                                       THEN [IdleCloser EXCEPT !.pc = "done"]
                                       ELSE [@ EXCEPT !.todo = @ \ {k}]]
    /\ UNCHANGED <<ctxDone, lnClosed, sessionMap, task, mon, clock, tickPending>>
    /\ UNCHANGED <<cipherVars, sealers, tcpVars, wireVars>>

(* ---- monitorSessions ---- *)

ExpiredAtOrAfter(now, lastActive) == now - lastActive >= SessionTimeout

\* now-lastActive > timeout
Expired(now, lastActive) == now - lastActive > SessionTimeout

\* case <-ctx.Done(): return
MonStop ==
    /\ mon.pc = "wait" /\ ctxDone
    /\ mon' = [mon EXCEPT !.pc = "stopped"]
    /\ UNCHANGED <<ctxDone, lnClosed, sessionMap, sess, task, closer, clock, tickPending>>
    /\ UNCHANGED <<cipherVars, sealers, tcpVars, wireVars>>

\* case <-ticker.C: now := time.Now().Unix(); the Range begins
MonTick ==
    /\ mon.pc = "wait" /\ tickPending
    /\ tickPending' = FALSE
    /\ mon' = [mon EXCEPT !.pc = "range", !.now = clock, !.todo = Addrs, !.snap = Present,
                          !.seen = {}]
    /\ UNCHANGED <<ctxDone, lnClosed, sessionMap, sess, task, closer, clock>>
    /\ UNCHANGED <<cipherVars, sealers, tcpVars, wireVars>>

\* the next key, or back to the select once the Range is over
MonRest(m) ==
    IF m.todo = {} THEN [m EXCEPT !.pc = "wait", !.now = 0, !.snap = {}, !.seen = {}]
    ELSE [m EXCEPT !.pc = "range"]

\* the Range callback up to the comparison, for one key; seen records the session and
\* whether its idle time as loaded exceeded four minutes
MonVisit(k, see) ==
    /\ mon.pc = "range" /\ k \in mon.todo
    /\ k \in mon.snap => see
    /\ LET s == sessionMap[k]
           m == [mon EXCEPT !.todo = @ \ {k}]
       IN  IF see /\ s # NoSession
           THEN LET n == [m EXCEPT !.seen = @ \cup {[s |-> s,
                                     over |-> mon.now - sess[s].lastActive > 240]}]
                IN  IF Expired(mon.now, sess[s].lastActive)
                    THEN mon' = [n EXCEPT !.pc = "close", !.k = k, !.s = s]
                    ELSE mon' = MonRest(n)
           ELSE mon' = MonRest(m)
    /\ UNCHANGED <<ctxDone, lnClosed, sessionMap, sess, task, closer, clock, tickPending>>
    /\ UNCHANGED <<cipherVars, sealers, tcpVars, wireVars>>

\* the Range callback: _ = s.Close()
MonClose ==
    /\ mon.pc = "close"
    /\ sess' = [sess EXCEPT ![mon.s].closed = TRUE]
    /\ mon' = [mon EXCEPT !.pc = "delete"]
    /\ UNCHANGED <<ctxDone, lnClosed, sessionMap, task, closer, clock, tickPending>>
    /\ UNCHANGED <<cipherVars, sealers, tcpVars, wireVars>>

\* the Range callback: r.sessionMap.Delete(key)
MonDelete ==
    /\ mon.pc = "delete"
    /\ sessionMap' = [sessionMap EXCEPT ![mon.k] = NoSession]
    /\ mon' = MonRest([mon EXCEPT !.k = "a1", !.s = NoSession])
    /\ UNCHANGED <<ctxDone, lnClosed, sess, task, closer, clock, tickPending>>
    /\ UNCHANGED <<cipherVars, sealers, tcpVars, wireVars>>

----------------------------------------------------------------------------
(* Specifications *)

\* the UDP engine from start to shutdown, within its first cleanup interval
NextRelay ==
    \/ \E a \in Addrs : RelayRecv(a)
    \/ \E kind \in {"closed", "other"} : RelayReadErr(kind)
    \/ LosLoad("relay")
    \/ \E ok \in BOOLEAN : RelayCreate(ok)
    \/ LosStore("relay")
    \/ \E ok \in BOOLEAN : RelayWrap(ok)
    \/ RelayFailClose
    \/ RelayFailDelete
    \/ \E s \in SessSlots, ok \in BOOLEAN : ReaderRecv(s, ok)
    \/ \E s \in SessSlots : ReaderReadErr(s)
    \/ \E s \in SessSlots : ReaderExitClose(s)
    \/ \E s \in SessSlots : ReaderExitDelete(s)
    \/ Cancel
    \/ WatcherWake
    \/ \E c \in {"watcher", "defer"} : CloseLn(c)
    \/ \E c \in {"watcher", "defer"}, k \in Addrs, see \in BOOLEAN : CloseVisit(c, k, see)
    \/ MonStop

InitRelaySpec == InitRelay /\ CipherIdle /\ SealersIdle /\ TcpIdle /\ WireIdle

SpecRelay == InitRelaySpec /\ [][NextRelay]_vars

\* the running UDP engine over several cleanup intervals
NextMonitor ==
    \/ \E a \in Addrs : RelayRecv(a)
    \/ \E kind \in {"closed", "other"} : RelayReadErr(kind)
    \/ LosLoad("relay")
    \/ \E ok \in BOOLEAN : IdleCreate(ok)
    \/ LosStore("relay")
    \/ \E ok \in BOOLEAN : RelayWrap(ok)
    \/ RelayFailClose
    \/ RelayFailDelete
    \/ \E s \in SessSlots, ok \in BOOLEAN : ReaderRecv(s, ok)
    \/ \E s \in SessSlots : ReaderReadErr(s)
    \/ \E s \in SessSlots : ReaderExitClose(s)
    \/ \E s \in SessSlots : ReaderExitDelete(s)
    \/ Advance
    \/ MonTick
    \/ \E k \in Addrs, see \in BOOLEAN : MonVisit(k, see)
    \/ MonClose
    \/ MonDelete

SpecMonitor == InitRelaySpec /\ [][NextMonitor]_vars

\* loadOrStoreSession called by concurrent tasks on one Relayer
InitRace ==
    /\ ctxDone = FALSE /\ lnClosed = FALSE
    /\ sessionMap = [a \in Addrs |-> NoSession]
    /\ sess = << >>
    /\ task = [t \in TaskIds |-> IF t \in Callers THEN [IdleTask EXCEPT !.pc = "idle"]
                                 ELSE IdleTask]
    /\ closer = [c \in {"watcher", "defer"} |-> IdleCloser]
    /\ mon = IdleMon
    /\ clock = 0 /\ tickPending = FALSE

NextRace ==
    \/ \E p \in Callers, a \in Addrs : CallerCall(p, a)
    \/ \E p \in Callers : LosLoad(p)
    \/ \E p \in Callers, ok \in BOOLEAN : CallerCreate(p, ok)
    \/ \E p \in Callers : LosStore(p)
    \/ \E s \in SessSlots, ok \in BOOLEAN : ReaderRecv(s, ok)
    \/ \E s \in SessSlots : ReaderReadErr(s)
    \/ \E s \in SessSlots : ReaderExitClose(s)
    \/ \E s \in SessSlots : ReaderExitDelete(s)

InitRaceSpec == InitRace /\ CipherIdle /\ SealersIdle /\ TcpIdle /\ WireIdle

SpecRace == InitRaceSpec /\ [][NextRace]_vars

InitCipherSpec == InitCipher /\ SealersIdle /\ UdpIdle /\ TcpIdle /\ WireIdle

\* one cipher context shared by tasks that call Seal concurrently
InitSealRaceSpec == InitSealRace /\ UdpIdle /\ TcpIdle /\ WireIdle

SpecSealRace == InitSealRaceSpec /\ [][NextSealRace]_vars

SpecCipher == InitCipherSpec /\ [][NextCipher]_vars

Spec == SpecRelay

----------------------------------------------------------------------------
(* socks5: address codec, TCPHandShake, Command.Validate, TCPResponse;       *)
(* handler: TCPSocks5Handshaker, TCPTunnelHandshaker                         *)

MaxMethods == 2      \* length of the method lists that are enumerated in full

Version == 5
BufLen == 255                      \* buf := make([]byte, 255)
NoAuthenticationRequired == 0
NoAcceptableMethods == 255
Connect == 1
Success == 0
CommandNotSupported == 7
AtypIPV4 == 1
AtypDomain == 3
AtypIPV6 == 4

NoErr == [wrap |-> FALSE, is |-> "nil"]
Err(name) == [wrap |-> FALSE, is |-> name]

\* ErrHandshake: fmt.Errorf("handshake failed: %w", err)
ErrHandshake(err) == [err EXCEPT !.wrap = TRUE]

\* errors.Is(err, target)
ErrorsIs(err, name) == err.is = name

NoAddr == [ATYP |-> 0, Addr |-> << >>, Port |-> 0]
ZeroIPv4 == [ATYP |-> AtypIPV4, Addr |-> <<0, 0, 0, 0>>, Port |-> 0]

\* the addresses a client asks for: 127.0.0.1:8080, "ab":80, [::1]:443
WellFormedAddrs ==
    {[ATYP |-> AtypIPV4, Addr |-> <<127, 0, 0, 1>>, Port |-> 8080],
     [ATYP |-> AtypDomain, Addr |-> <<97, 98>>, Port |-> 80],
     [ATYP |-> AtypIPV6, Addr |-> Repeat(0, 15) \o <<1>>, Port |-> 443]}

\* the forward address of a tunnel: 10.0.0.1:53
ForwardAddrs == {[ATYP |-> AtypIPV4, Addr |-> <<10, 0, 0, 1>>, Port |-> 53]}

\* Addr.Bytes: type, address bytes (a domain name behind its length), big-endian port
AddrBytes(a) ==
    <<a.ATYP>> \o (IF a.ATYP = AtypDomain THEN <<Len(a.Addr)>> ELSE << >>)
               \o a.Addr \o <<a.Port \div 256, a.Port % 256>>

\* ReadAddrFrom on a reader that holds inp: the address, the error, the bytes consumed
ReadAddrFrom(inp) ==
    IF Len(inp) < 1 THEN [err |-> Err("MalformedAddress"), addr |-> NoAddr, n |-> 0]
    ELSE LET atyp == inp[1]
             off == IF atyp = AtypDomain THEN 2 ELSE 1
             alen == IF atyp = AtypIPV4 THEN 4
                     ELSE IF atyp = AtypIPV6 THEN 16
                     ELSE IF atyp = AtypDomain /\ Len(inp) >= 2 THEN inp[2]
                     ELSE 0
         IN  IF atyp \notin {AtypIPV4, AtypDomain, AtypIPV6}
             THEN [err |-> Err("MalformedAddress"), addr |-> NoAddr, n |-> 1]
             ELSE IF Len(inp) < off + alen + 2
             THEN [err |-> Err("MalformedAddress"), addr |-> NoAddr, n |-> Len(inp)]
             ELSE [err |-> NoErr,
                   addr |-> [ATYP |-> atyp, Addr |-> SubSeq(inp, off + 1, off + alen),
                             Port |-> inp[off + alen + 1] * 256 + inp[off + alen + 2]],
                   n |-> off + alen + 2]

\* TCPResponse.Bytes
TCPResponseBytes(r) == <<Version, r.Filed, 0>> \o AddrBytes(r.Addr)

NewSuccessTCPResponseEchoes(a) == [Filed |-> Success, Addr |-> a]

\* NewSuccessTCPResponse: BND.ADDR is always 0.0.0.0:0, whatever the target a
NewSuccessTCPResponse(a) == [Filed |-> Success, Addr |-> ZeroIPv4]

(* ---- the inbound connection ---- *)

NewConn == [nread |-> 0, out |-> << >>, deadline |-> "unset", until |-> 0]

\* io.ReadFull(conn, buf[:n]) when the client has sent inp and nothing more
ReadFull(conn, inp, n) ==
    IF Len(inp) < n
    THEN [err |-> Err(IF inp = << >> THEN "EOF" ELSE "ErrUnexpectedEOF"),
          conn |-> [conn EXCEPT !.nread = @ + Len(inp)]]
    ELSE [err |-> NoErr, conn |-> [conn EXCEPT !.nread = @ + n]]

\* conn.Write(b): the bytes, tagged with the number of bytes read so far
Write(conn, b, ok) ==
    IF ok THEN [err |-> NoErr, conn |-> [conn EXCEPT !.out = Append(@, [bytes |-> b, at |-> conn.nread])]]
    ELSE [err |-> Err("io"), conn |-> conn]

(* ---- what a client may send ---- *)

VersionBytes == {4, Version}
NMethodsBytes == (0 .. MaxMethods) \cup {BufLen}
MethodBytes == {NoAuthenticationRequired, 2, NoAcceptableMethods}
CommandBytes == {Connect, 2, 3}

\* every list of at most MaxMethods methods; of the longer lists, those that repeat one
\* method, and the one whose last byte alone is no-auth
MethodLists(n) ==
    IF n <= MaxMethods THEN [1 .. n -> MethodBytes]
    ELSE {Repeat(m, n) : m \in MethodBytes} \cup {Repeat(2, n - 1) \o <<NoAuthenticationRequired>>}

HeadInputs == {<< >>, <<Version>>} \cup {<<v, n>> : v \in VersionBytes, n \in NMethodsBytes}

\* what arrives when n method bytes are awaited: n bytes, or fewer and then the end
MethodInputs(n) == MethodLists(n) \cup {<< >>} \cup (IF n > 1 THEN {<<2>>} ELSE {})

AllMethodInputs == UNION {MethodInputs(n) : n \in NMethodsBytes \ {0}}

RequestInputs == {<<Version, 1>>} \cup {<<Version, c, 0>> : c \in CommandBytes}

\* address bytes that are no address: nothing, an unknown type, a cut IPv4, a cut domain
MalformedAddrInputs == {<< >>, <<5, 1, 2>>, <<AtypIPV4, 127, 0>>, <<AtypDomain, 4, 97>>}

(* ---- TCPHandShake ---- *)

\* slices.Contains
Contains(s, b) == \E i \in 1 .. Len(s) : s[i] = b

HeadErrorCountFirst(ver, nMethods) ==
    IF nMethods < 1 THEN Err("ErrMethodsCount")
    ELSE IF ver # Version THEN Err("ErrVersionNotSupported")
    ELSE NoErr

\* the checks on VER and NMETHODS
HeadError(ver, nMethods) ==
    IF ver # Version THEN Err("ErrVersionNotSupported")
    ELSE IF nMethods < 1 THEN Err("ErrMethodsCount")
    ELSE NoErr

\* buf after the two reads: the method bytes over VER, NMETHODS and the zeroes of make
BufAfterMethods(ver, nMethods, methods) ==
    methods \o SubSeq(<<ver, nMethods>> \o Repeat(0, BufLen - 2), nMethods + 1, BufLen)

\* the slice searched for the no-auth method: buf[:nMethods] in the TCPHandShake that takes
\* a deadline, the whole of buf in the TCPHandShake that takes a context
MethodsSearched(variant, buf, nMethods) ==
    IF variant = "ctx" THEN buf ELSE SubSeq(buf, 1, nMethods)

\* the handshaker's state on an inbound connection
NewHandshake(mode, variant, forward) ==
    [pc |-> "start", mode |-> mode, variant |-> variant, forward |-> forward,
     conn |-> NewConn, ver |-> -1, nMethods |-> -1, methods |-> << >>, cmd |-> -1,
     sent |-> NoAddr, addr |-> NoAddr, err |-> NoErr, wfail |-> FALSE]

HandshakeTimeout == 5              \* seconds
NowSeconds == 7200                 \* time.Now().Unix() while one connection is followed

HandShakeFailsKeepsDeadline(h, conn, err) ==
    [h EXCEPT !.pc = "done", !.err = IF h.variant = "deadline" THEN ErrHandshake(err) ELSE err,
              !.conn = conn]

\* a return from TCPHandShake with an error: the deferred functions clear the deadline
\* (conn.SetDeadline(time.Time{})) and wrap the error (the TCPHandShake that takes a context
\* has neither)
HandShakeFails(h, conn, err) ==
    [h EXCEPT !.pc = "done", !.err = IF h.variant = "deadline" THEN ErrHandshake(err) ELSE err,
              !.conn = IF h.variant = "deadline" /\ conn.deadline = "armed"
                       THEN [conn EXCEPT !.deadline = "cleared", !.until = 0] ELSE conn]

\* Handshake is called; TCPHandShake: conn.SetDeadline(time.Now().Add(timeout))
S5Start(ok) ==
    /\ s5.pc = "start" /\ s5.mode = "socks5"
    /\ IF s5.variant = "ctx" THEN ok /\ s5' = [s5 EXCEPT !.pc = "head"]
       ELSE IF ok THEN s5' = [s5 EXCEPT !.pc = "head", !.conn.deadline = "armed",
                                        !.conn.until = NowSeconds + HandshakeTimeout]
       ELSE s5' = HandShakeFails(s5, s5.conn, Err("io"))
    /\ UNCHANGED <<shs, bridge>>
    /\ UNCHANGED <<cipherVars, sealers, udpVars, wireVars>>

\* io.ReadFull(conn, buf[:2]) and the checks on VER and NMETHODS
ReadHead(inp) ==
    /\ s5.pc = "head"
    /\ LET r == ReadFull(s5.conn, inp, 2)
       IN  IF r.err # NoErr THEN s5' = HandShakeFails(s5, r.conn, r.err)
           ELSE LET h == [s5 EXCEPT !.ver = inp[1], !.nMethods = inp[2]]
                    e == HeadError(inp[1], inp[2])
                IN  IF e # NoErr THEN s5' = HandShakeFails(h, r.conn, e)
                    ELSE s5' = [h EXCEPT !.pc = "methods", !.conn = r.conn]
    /\ UNCHANGED <<shs, bridge>>
    /\ UNCHANGED <<cipherVars, sealers, udpVars, wireVars>>

\* io.ReadFull(conn, buf[:nMethods]), the search for no-auth, the method reply
ReadMethods(inp, wok) ==
    /\ s5.pc = "methods" /\ inp \in MethodInputs(s5.nMethods)
    /\ LET r == ReadFull(s5.conn, inp, s5.nMethods)
       IN  IF r.err # NoErr THEN wok /\ s5' = HandShakeFails(s5, r.conn, r.err)
           ELSE LET h == [s5 EXCEPT !.methods = inp, !.wfail = ~wok]
                    buf == BufAfterMethods(s5.ver, s5.nMethods, inp)
                IN  IF ~Contains(MethodsSearched(s5.variant, buf, s5.nMethods),
                                 NoAuthenticationRequired)
                    THEN s5' = HandShakeFails(h,
                                   Write(r.conn, <<Version, NoAcceptableMethods>>, wok).conn,
                                   Err("ErrNoAcceptableMethods"))
                    ELSE LET w == Write(r.conn, <<Version, NoAuthenticationRequired>>, wok)
                         IN  IF w.err # NoErr THEN s5' = HandShakeFails(h, w.conn, w.err)
                             ELSE s5' = [h EXCEPT !.pc = "request", !.conn = w.conn]
    /\ UNCHANGED <<shs, bridge>>
    /\ UNCHANGED <<cipherVars, sealers, udpVars, wireVars>>

\* io.ReadFull(conn, buf[:3]): VER, CMD, RSV
ReadRequest(inp) ==
    /\ s5.pc = "request"
    /\ LET r == ReadFull(s5.conn, inp, 3)
       IN  IF r.err # NoErr THEN s5' = HandShakeFails(s5, r.conn, r.err)
           ELSE s5' = [s5 EXCEPT !.pc = "addr", !.cmd = inp[2], !.conn = r.conn]
    /\ UNCHANGED <<shs, bridge>>
    /\ UNCHANGED <<cipherVars, sealers, udpVars, wireVars>>

(* ---- Command.Validate and TCPSocks5Handshaker.Handshake ---- *)

\* Command.Validate: the failure reply, its write error ignored
Validate(c, cmd, conn, wok) ==
    IF c # cmd
    THEN [err |-> Err("ErrCommandNotSupported"),
          conn |-> Write(conn, TCPResponseBytes([Filed |-> CommandNotSupported,
                                                  Addr |-> ZeroIPv4]), wok).conn]
    ELSE [err |-> NoErr, conn |-> conn]

\* Handshake once TCPHandShake has returned req: Validate, then the success reply
Handshake(h, conn, req, wok) ==
    LET v == Validate(req.Command, Connect, conn, wok)
    IN  IF v.err # NoErr THEN [h EXCEPT !.pc = "done", !.err = v.err, !.conn = v.conn]
        ELSE LET w == Write(conn, TCPResponseBytes(NewSuccessTCPResponse(req.Addr)), wok)
             IN  IF w.err # NoErr THEN [h EXCEPT !.pc = "done", !.err = w.err, !.conn = w.conn]
                 ELSE [h EXCEPT !.pc = "done", !.addr = req.Addr, !.conn = w.conn]

\* ReadAddrFrom(conn); TCPHandShake returns; Handshake validates the command and replies.
\* The client has sent inp, which is the encoding of address a when a is not NoAddr.
ReadAddr(inp, a, wok) ==
    /\ s5.pc = "addr"
    /\ LET r == ReadAddrFrom(inp)
           c == [s5.conn EXCEPT !.nread = @ + r.n]
           h == [s5 EXCEPT !.sent = a]
       IN  IF r.err # NoErr THEN wok /\ s5' = HandShakeFails(h, c, r.err)
           ELSE s5' = Handshake([h EXCEPT !.wfail = @ \/ ~wok],
                                IF s5.variant = "deadline"
                                THEN [c EXCEPT !.deadline = "cleared", !.until = 0]
                                ELSE c,
                                [Command |-> s5.cmd, Addr |-> r.addr], wok)
    /\ UNCHANGED <<shs, bridge>>
    /\ UNCHANGED <<cipherVars, sealers, udpVars, wireVars>>

TunnelHandshakeArmsDeadline(h, conn) ==
    [addr |-> h.forward, err |-> NoErr, conn |-> [conn EXCEPT !.deadline = "armed"]]

\* TCPTunnelHandshaker.Handshake: return h.ForwardAddr, nil
TunnelHandshake(h, conn) == [addr |-> h.forward, err |-> NoErr, conn |-> conn]

\* Handshake is called on a tunnel handshaker
DoTunnelHandshake ==
    /\ s5.pc = "start" /\ s5.mode = "tunnel"
    /\ LET r == TunnelHandshake(s5, s5.conn)
       IN  s5' = [s5 EXCEPT !.pc = "done", !.addr = r.addr, !.err = r.err, !.conn = r.conn]
    /\ UNCHANGED <<shs, bridge>>
    /\ UNCHANGED <<cipherVars, sealers, udpVars, wireVars>>

\* NewTCPHandshaker for either protocol, on a fresh inbound connection
InitSocks5 ==
    \/ \E variant \in {"deadline", "ctx"} : s5 = NewHandshake("socks5", variant, NoAddr)
    \/ \E f \in ForwardAddrs : s5 = NewHandshake("tunnel", "deadline", f)

NextSocks5 ==
    \/ \E ok \in BOOLEAN : S5Start(ok)
    \/ \E inp \in HeadInputs : ReadHead(inp)
    \/ \E inp \in AllMethodInputs, wok \in BOOLEAN : ReadMethods(inp, wok)
    \/ \E inp \in RequestInputs : ReadRequest(inp)
    \/ \E a \in WellFormedAddrs, extra \in {<< >>, <<22, 3>>}, wok \in BOOLEAN :
          ReadAddr(AddrBytes(a) \o extra, a, wok)
    \/ \E inp \in MalformedAddrInputs : ReadAddr(inp, NoAddr, TRUE)
    \/ DoTunnelHandshake

InitSocks5Spec ==
    /\ InitSocks5 /\ shs = [pc |-> "off"] /\ bridge = [pc |-> "off"]
    /\ CipherIdle /\ SealersIdle /\ UdpIdle /\ WireIdle

SpecSocks5 == InitSocks5Spec /\ [][NextSocks5]_vars

----------------------------------------------------------------------------
(* tcp.go: ShadowTCPConn.readServerHandshake, parseResponseFLH, validate     *)

HeaderTypeClientStream == 0
HeaderTypeServerStream == 1
MaxSkewSeconds == 30               \* time.Since(f.timeStamp).Seconds() > 30

\* Cipher.ReNew
ReNew(c, salt) == NewCipher(c.key, salt, c.method)

RECURSIVE BigEndian(_, _)
\* binary.BigEndian.AppendUint64 / AppendUint16: v in n bytes, most significant first
BigEndian(v, n) == IF n = 0 THEN << >> ELSE BigEndian(v \div 256, n - 1) \o <<v % 256>>

RECURSIVE BigEndianUint(_)
\* binary.BigEndian.Uint64 / Uint16 of a byte slice
BigEndianUint(b) ==
    IF b = << >> THEN 0 ELSE BigEndianUint(SubSeq(b, 1, Len(b) - 1)) * 256 + b[Len(b)]

\* the fixed response header as the server lays it out: type, timestamp, request salt, length
ResponseFLHBytes(ht, ts, requestSalt, l) ==
    <<ht>> \o BigEndian(ts, 8) \o requestSalt \o BigEndian(l, 2)

validateSaltHead(f, nowMs) ==
    IF f.ht # HeaderTypeServerStream THEN Err("ErrHeaderType")
    ELSE IF nowMs - f.timeStamp * 1000 > MaxSkewSeconds * 1000 THEN Err("timestamp skewed")
    ELSE IF f.requestSalt[1] # f.originSalt[1] THEN Err("request Salt mismatched")
    ELSE NoErr

\* responseFLH.validate, at a time of nowMs milliseconds
validate(f, nowMs) ==
    IF f.ht # HeaderTypeServerStream THEN Err("ErrHeaderType")
    ELSE IF nowMs - f.timeStamp * 1000 > MaxSkewSeconds * 1000 THEN Err("timestamp skewed")
    ELSE IF f.requestSalt # f.originSalt THEN Err("request Salt mismatched")
    ELSE NoErr

\* parseResponseFLH(data, salt)
parseResponseFLH(data, salt, nowMs) ==
    LET flh == [ht |-> data[1],
                timeStamp |-> BigEndianUint(SubSeq(data, 2, 9)),
                requestSalt |-> SubSeq(data, 10, 9 + Len(salt)),
                l |-> BigEndianUint(SubSeq(data, 10 + Len(salt), 11 + Len(salt))),
                originSalt |-> salt]
    IN  [err |-> validate(flh, nowMs), flh |-> flh]

\* readServerHandshake on a connection whose encrypt context is enc, when the server has
\* sent resp: what it returns, what parseResponseFLH returned if it was called, the
\* decrypt context and the early payload it leaves in the connection
readServerHandshake(enc, resp, nowMs) ==
    LET none == [err |-> NoErr, parsed |-> FALSE, parseErr |-> NoErr, deCipher |-> NoCipher,
                 handshakePayload |-> << >>]
    IN  IF resp.short THEN [none EXCEPT !.err = Err("ErrUnexpectedEOF")]
        ELSE LET dec == ReNew(enc, resp.salt).c
                 o == Open(dec, resp.flh)
             IN  IF o.err # "nil" THEN [none EXCEPT !.err = Err(o.err), !.deCipher = dec]
                 ELSE LET p == parseResponseFLH(o.pt, enc.salt, nowMs)
                          got == [none EXCEPT !.parsed = TRUE, !.parseErr = p.err]
                      IN  IF p.err # NoErr
                          THEN [got EXCEPT !.err = p.err, !.deCipher = o.c]
                          ELSE IF p.flh.l = 0 THEN [got EXCEPT !.deCipher = o.c]
                          ELSE IF resp.more.kind = "short"
                          THEN [got EXCEPT !.err = Err("ErrUnexpectedEOF"), !.deCipher = o.c]
                          ELSE LET q == Open(o.c, resp.more.box)
                               IN  IF q.err # "nil"
                                   THEN [got EXCEPT !.err = Err(q.err), !.deCipher = q.c]
                                   ELSE [got EXCEPT !.deCipher = q.c,
                                                    !.handshakePayload = q.pt]

(* ---- what a server may send ---- *)

StreamKey == [id |-> "k16", len |-> 16]
OtherKey == [id |-> "kx", len |-> 16]
StreamMethod == "2022-blake3-aes-128-gcm"
ClientSalt == Repeat(7, 16)        \* NewSalt(len(key)) on the client
ServerSalt == Repeat(9, 16)

\* NewShadowTCPConn: the connection's encrypt context
StreamEnCipher == NewCipher(StreamKey, ClientSalt, StreamMethod).c

NowMsChoices == {NowSeconds * 1000, NowSeconds * 1000 + 500}
TimeStamps == {NowSeconds - 3600, NowSeconds - 31, NowSeconds - 30, NowSeconds,
               NowSeconds + 30, NowSeconds + 31, NowSeconds + 3600}
HeaderTypes == {HeaderTypeClientStream, HeaderTypeServerStream, 2}
EchoedSalts == {ClientSalt, [ClientSalt EXCEPT ![16] = 8], [ClientSalt EXCEPT ![1] = 8],
                ServerSalt}
EarlyPayload == <<1, 2, 3>>

NoMore == [kind |-> "none"]

\* the server seals the header, and the early payload if any, under key and its salt;
\* fault damages the header's tag, or cuts or damages the payload
ServerResponse(key, ht, ts, echo, l, fault) ==
    LET srv == NewCipher(key, ServerSalt, StreamMethod).c
        h == Seal(srv, << >>, ResponseFLHBytes(ht, ts, echo, l))
        m == Seal(h.c, << >>, EarlyPayload)
    IN  [short |-> FALSE, salt |-> ServerSalt,
         flh |-> IF fault = "flh" THEN [h.out[1] EXCEPT !.tag = "forged"] ELSE h.out[1],
         more |-> IF l = 0 THEN NoMore
                  ELSE IF fault = "cut" THEN [kind |-> "short"]
                  ELSE [kind |-> "box",
                        box |-> IF fault = "more" THEN [m.out[1] EXCEPT !.tag = "forged"]
                                ELSE m.out[1]]]

ShortResponse == [short |-> TRUE, salt |-> ServerSalt, flh |-> NoMore, more |-> NoMore]

\* one server handshake about to be read: what the server meant, what it sent, the time
InitHandshake ==
    \/ \E ht \in HeaderTypes, ts \in TimeStamps, echo \in EchoedSalts, l \in {0, 3},
          now \in NowMsChoices :
          shs = [pc |-> "read", ht |-> ht, ts |-> ts, echo |-> echo, l |-> l, nowMs |-> now,
                 resp |-> ServerResponse(StreamKey, ht, ts, echo, l, "none"),
                 res |-> readServerHandshake(StreamEnCipher, ShortResponse, 0)]
    \/ \E l \in {0, 3}, fault \in {"flh", "cut", "more", "key", "short"} :
          shs = [pc |-> "read", ht |-> HeaderTypeServerStream, ts |-> NowSeconds,
                 echo |-> ClientSalt, l |-> l, nowMs |-> NowSeconds * 1000,
                 resp |-> IF fault = "short" THEN ShortResponse
                          ELSE ServerResponse(IF fault = "key" THEN OtherKey ELSE StreamKey,
                                              HeaderTypeServerStream, NowSeconds, ClientSalt,
                                              l, fault),
                 res |-> readServerHandshake(StreamEnCipher, ShortResponse, 0)]

\* stc.readServerHandshake()
ReadServerHandshake ==
    /\ shs.pc = "read"
    /\ shs' = [shs EXCEPT !.pc = "done",
                          !.res = readServerHandshake(StreamEnCipher, shs.resp, shs.nowMs)]
    /\ UNCHANGED <<s5, bridge>>
    /\ UNCHANGED <<cipherVars, sealers, udpVars, wireVars>>

NextHandshake == ReadServerHandshake

InitHandshakeSpec ==
    /\ InitHandshake /\ s5 = [pc |-> "off"] /\ bridge = [pc |-> "off"]
    /\ CipherIdle /\ SealersIdle /\ UdpIdle /\ WireIdle

SpecHandshake == InitHandshakeSpec /\ [][NextHandshake]_vars

----------------------------------------------------------------------------
(* tcp.go: ShadowTCPConn.Stream, Read, Write, Close *)

MaxChunks == 1       \* chunks copied in each direction by one bridge

ErrChanCap == 3                    \* errChan := make(chan error, 3)

\* server handshakes a bridge may meet: good without and with an early payload, cut short,
\* forged, sealed under another key, of the wrong type, too old, echoing another salt,
\* with its early payload cut or forged
BridgeResponses ==
    {ServerResponse(StreamKey, HeaderTypeServerStream, NowSeconds, ClientSalt, l, "none") :
        l \in {0, 3}}
    \cup {ShortResponse}
    \cup {ServerResponse(StreamKey, HeaderTypeServerStream, NowSeconds, ClientSalt, 3, f) :
            f \in {"flh", "cut", "more"}}
    \cup {ServerResponse(OtherKey, HeaderTypeServerStream, NowSeconds, ClientSalt, 0, "none"),
          ServerResponse(StreamKey, HeaderTypeClientStream, NowSeconds, ClientSalt, 0, "none"),
          ServerResponse(StreamKey, HeaderTypeServerStream, NowSeconds - 31, ClientSalt, 0, "none"),
          ServerResponse(StreamKey, HeaderTypeServerStream, NowSeconds, ServerSalt, 0, "none")}

\* Stream is called on a new ShadowTCPConn and an accepted inbound connection
InitBridge ==
    bridge = [pc |-> "handshake", ctxDone |-> FALSE, stcClosed |-> FALSE, connClosed |-> FALSE,
              errChan |-> << >>, watcher |-> "off", down |-> "off", up |-> "off",
              hs |-> "none", pending |-> << >>, toInbound |-> 0, toServer |-> 0]

\* the caller's context is cancelled
BridgeCancel ==
    /\ bridge.pc # "off" /\ ~bridge.ctxDone
    /\ bridge' = [bridge EXCEPT !.ctxDone = TRUE]
    /\ UNCHANGED <<s5, shs>>
    /\ UNCHANGED <<cipherVars, sealers, udpVars, wireVars>>

\* Stream: writeClientHandshake, whose failure is logged and no more; the three tasks start
StreamStart(ok) ==
    /\ bridge.pc = "handshake"
    /\ bridge' = [bridge EXCEPT !.pc = "wait", !.watcher = "wait", !.down = "read",
                                !.up = "read"]
    /\ UNCHANGED <<s5, shs>>
    /\ UNCHANGED <<cipherVars, sealers, udpVars, wireVars>>

\* the watcher: <-ctx.Done(); _ = stc.Close()
WatcherClose ==
    /\ bridge.watcher = "wait" /\ bridge.ctxDone
    /\ bridge' = [bridge EXCEPT !.watcher = "send", !.stcClosed = TRUE]
    /\ UNCHANGED <<s5, shs>>
    /\ UNCHANGED <<cipherVars, sealers, udpVars, wireVars>>

\* the watcher: errChan <- ctx.Err()
WatcherSend ==
    /\ bridge.watcher = "send" /\ Len(bridge.errChan) < ErrChanCap
    /\ bridge' = [bridge EXCEPT !.watcher = "done",
                                !.errChan = Append(@, Err("context.Canceled"))]
    /\ UNCHANGED <<s5, shs>>
    /\ UNCHANGED <<cipherVars, sealers, udpVars, wireVars>>

\* a copy loop ends: errChan <- err
CopyEnds(b, dir, err) ==
    [b EXCEPT ![dir] = "done", !.errChan = Append(@, err)]

DownHandshakeLetsThrough(resp) ==
    /\ bridge.down = "read" /\ bridge.hs = "none"
    /\ Len(bridge.errChan) < ErrChanCap
    /\ IF bridge.stcClosed
       THEN /\ resp = ShortResponse
            /\ bridge' = CopyEnds([bridge EXCEPT !.hs = "failed"], "down", Err("ErrClosed"))
       ELSE LET r == readServerHandshake(StreamEnCipher, resp, NowSeconds * 1000)
            IN  bridge' = [bridge EXCEPT !.hs = IF r.err # NoErr THEN "failed" ELSE "ok",
                                         !.pending = r.handshakePayload]
    /\ UNCHANGED <<s5, shs>>
    /\ UNCHANGED <<cipherVars, sealers, udpVars, wireVars>>

\* the first stc.Read of the remote-to-inbound copy: readServerHandshake under the Once;
\* its error is what Read returns, and the copy ends with it
DownHandshake(resp) ==
    /\ bridge.down = "read" /\ bridge.hs = "none"
    /\ Len(bridge.errChan) < ErrChanCap
    /\ IF bridge.stcClosed
       THEN /\ resp = ShortResponse
            /\ bridge' = CopyEnds([bridge EXCEPT !.hs = "failed"], "down", Err("ErrClosed"))
       ELSE LET r == readServerHandshake(StreamEnCipher, resp, NowSeconds * 1000)
            IN  IF r.err # NoErr
                THEN bridge' = CopyEnds([bridge EXCEPT !.hs = "failed"], "down", r.err)
                ELSE bridge' = [bridge EXCEPT !.hs = "ok", !.pending = r.handshakePayload]
    /\ UNCHANGED <<s5, shs>>
    /\ UNCHANGED <<cipherVars, sealers, udpVars, wireVars>>

\* stc.Read after the handshake: the early payload if there is one, else a chunk from the
\* server, its end of stream, or an error (a closed socket, a chunk that does not open)
DownRead(kind) ==
    /\ bridge.down = "read" /\ bridge.hs # "none"
    /\ Len(bridge.errChan) < ErrChanCap
    /\ IF bridge.pending # << >>
       THEN /\ kind = "chunk"
            /\ bridge' = [bridge EXCEPT !.down = "write", !.pending = << >>]
       ELSE IF kind = "chunk"
       THEN /\ ~bridge.stcClosed /\ bridge.toInbound < MaxChunks
            /\ bridge' = [bridge EXCEPT !.down = "write"]
       ELSE IF kind = "eof"
       THEN /\ ~bridge.stcClosed
            /\ bridge' = CopyEnds(bridge, "down", NoErr)
       ELSE bridge' = CopyEnds(bridge, "down",
                               Err(IF bridge.stcClosed THEN "ErrClosed" ELSE "io"))
    /\ UNCHANGED <<s5, shs>>
    /\ UNCHANGED <<cipherVars, sealers, udpVars, wireVars>>

\* conn.Write of what stc.Read returned
DownWrite ==
    /\ bridge.down = "write"
    /\ Len(bridge.errChan) < ErrChanCap
    /\ IF bridge.connClosed THEN bridge' = CopyEnds(bridge, "down", Err("ErrClosed"))
       ELSE bridge' = [bridge EXCEPT !.down = "read", !.toInbound = @ + 1]
    /\ UNCHANGED <<s5, shs>>
    /\ UNCHANGED <<cipherVars, sealers, udpVars, wireVars>>

\* conn.Read of the inbound-to-remote copy
UpRead(kind) ==
    /\ bridge.up = "read"
    /\ Len(bridge.errChan) < ErrChanCap
    /\ IF kind = "chunk"
       THEN /\ ~bridge.connClosed /\ bridge.toServer < MaxChunks
            /\ bridge' = [bridge EXCEPT !.up = "write"]
       ELSE IF kind = "eof"
       THEN /\ ~bridge.connClosed
            /\ bridge' = CopyEnds(bridge, "up", NoErr)
       ELSE bridge' = CopyEnds(bridge, "up",
                               Err(IF bridge.connClosed THEN "ErrClosed" ELSE "io"))
    /\ UNCHANGED <<s5, shs>>
    /\ UNCHANGED <<cipherVars, sealers, udpVars, wireVars>>

\* stc.Write: two Seals, then shadowConn.Write
UpWrite ==
    /\ bridge.up = "write"
    /\ Len(bridge.errChan) < ErrChanCap
    /\ IF bridge.stcClosed THEN bridge' = CopyEnds(bridge, "up", Err("ErrClosed"))
       ELSE bridge' = [bridge EXCEPT !.up = "read", !.toServer = @ + 1]
    /\ UNCHANGED <<s5, shs>>
    /\ UNCHANGED <<cipherVars, sealers, udpVars, wireVars>>

StreamRecvOnError ==
    /\ bridge.pc = "wait" /\ bridge.errChan # << >>
    /\ bridge' = [bridge EXCEPT !.pc = IF Head(bridge.errChan) = NoErr THEN "wait"
                                       ELSE "closeConn",
                                !.errChan = Tail(@)]
    /\ UNCHANGED <<s5, shs>>
    /\ UNCHANGED <<cipherVars, sealers, udpVars, wireVars>>

\* Stream: err := <-errChan, then the log lines; Stream returns whatever err is
StreamRecv ==
    /\ bridge.pc = "wait" /\ bridge.errChan # << >>
    /\ bridge' = [bridge EXCEPT !.pc = "closeConn", !.errChan = Tail(@)]
    /\ UNCHANGED <<s5, shs>>
    /\ UNCHANGED <<cipherVars, sealers, udpVars, wireVars>>

\* Stream's deferred conn.Close()
StreamCloseConn ==
    /\ bridge.pc = "closeConn"
    /\ bridge' = [bridge EXCEPT !.pc = "closeStc", !.connClosed = TRUE]
    /\ UNCHANGED <<s5, shs>>
    /\ UNCHANGED <<cipherVars, sealers, udpVars, wireVars>>

\* Stream's deferred stc.Close()
StreamCloseStc ==
    /\ bridge.pc = "closeStc"
    /\ bridge' = [bridge EXCEPT !.pc = "returned", !.stcClosed = TRUE]
    /\ UNCHANGED <<s5, shs>>
    /\ UNCHANGED <<cipherVars, sealers, udpVars, wireVars>>

NextBridge ==
    \/ BridgeCancel
    \/ \E ok \in BOOLEAN : StreamStart(ok)
    \/ WatcherClose
    \/ WatcherSend
    \/ \E resp \in BridgeResponses : DownHandshake(resp)
    \/ \E kind \in {"chunk", "eof", "err"} : DownRead(kind)
    \/ DownWrite
    \/ \E kind \in {"chunk", "eof", "err"} : UpRead(kind)
    \/ UpWrite
    \/ StreamRecv
    \/ StreamCloseConn
    \/ StreamCloseStc

InitBridgeSpec ==
    /\ InitBridge /\ s5 = [pc |-> "off"] /\ shs = [pc |-> "off"]
    /\ CipherIdle /\ SealersIdle /\ UdpIdle /\ WireIdle

\* every task of the bridge that can take a step eventually takes one
BridgeFairness ==
    /\ \A ok \in BOOLEAN : WF_vars(StreamStart(ok))
    /\ WF_vars(WatcherClose) /\ WF_vars(WatcherSend)
    /\ WF_vars(StreamRecv) /\ WF_vars(StreamCloseConn) /\ WF_vars(StreamCloseStc)

SpecBridge == InitBridgeSpec /\ [][NextBridge]_vars /\ BridgeFairness

\* a task that can take a step takes one; a Read that has the early payload to return, or
\* that is on a closed socket, returns; the caller is not bound to cancel its context
TaskFairness ==
    /\ BridgeFairness
    /\ WF_vars(bridge.stcClosed /\ DownHandshake(ShortResponse))
    /\ WF_vars(bridge.pending # << >> /\ DownRead("chunk"))
    /\ WF_vars(bridge.stcClosed /\ DownRead("err"))
    /\ WF_vars(bridge.connClosed /\ UpRead("err"))
    /\ WF_vars(DownWrite) /\ WF_vars(UpWrite)

SpecBridgeTasks == InitBridgeSpec /\ [][NextBridge]_vars /\ TaskFairness

----------------------------------------------------------------------------
(* tcp.go: Padding *)

MaxPaddingArg == 65533             \* 0xFFFF - 2

PaddingFailed(kind, name) == [kind |-> kind, err |-> Err(name), buf |-> << >>]

\* Padding(min, max) when rand.UintN(uint(max)) draws n and crypto/rand fills with fill:
\* max is clamped first, min is compared with the clamped max, UintN panics on 0
Padding(min, max, n, fill) ==
    LET m == IF max > MaxPaddingArg THEN MaxPaddingArg ELSE max
    IN  IF min > m THEN PaddingFailed("err", "min greater than max")
        ELSE IF m = 0 THEN PaddingFailed("panic", "invalid argument to UintN")
        ELSE LET nn == IF n % 65536 < min THEN min ELSE n % 65536
             IN  [kind |-> "ok", err |-> NoErr, buf |-> BigEndian(nn, 2) \o Repeat(fill, nn)]

----------------------------------------------------------------------------
(* tcp.go: wrap, buildSeparateHeader, buildClientMessage, unwrap,            *)
(* parseServerMessage, as Session.wrapAndWrite and relayFromServer use them  *)

MaxPackets == 2      \* packets one session wraps in a run
MaxDatagrams == 2    \* datagrams one session's reader receives in a run

HeaderTypeClientPacket == 0
HeaderTypeServerPacket == 1
SeparateHeaderLen == 16            \* encryptedHeader := data[:16]
ServerMessageMin == 19             \* if len(data) < 19
UdpPaddingMax == 100               \* Padding(1, 100)

\* copy(dst, src) into n zero bytes
CopyInto(n, src) ==
    IF Len(src) >= n THEN SubSeq(src, 1, n) ELSE src \o Repeat(0, n - Len(src))

\* blockCipher.Encrypt / Decrypt: AES on one block under the relayer's key; under another
\* key the block that comes out is unrelated to the one that went in
BlockEncrypt(key, block) == [aes |-> key.id, block |-> block]

BlockDecrypt(key, enc) ==
    IF enc.aes = key.id THEN enc.block ELSE Repeat(255, SeparateHeaderLen)

buildSeparateHeaderSaltOnly(c) == CopyInto(8, c.salt) \o Repeat(0, 8)

\* buildSeparateHeader: the salt in bytes 0..7, the first 8 bytes of the nonce in 8..15
buildSeparateHeader(c) == CopyInto(8, c.salt) \o CopyInto(8, Nonce(c))

buildClientMessageBarePadding(payload, now, pad) ==
    IF pad.kind # "ok" THEN [err |-> pad.err, msg |-> << >>]
    ELSE [err |-> NoErr,
          msg |-> <<HeaderTypeClientPacket>> \o BigEndian(now, 8)
                  \o BigEndian(Len(pad.buf) % 65536, 2) \o SubSeq(pad.buf, 3, Len(pad.buf))
                  \o payload]

\* buildClientMessage at time now, pad being what Padding(1, 100) returned
buildClientMessage(payload, now, pad) ==
    IF pad.kind # "ok" THEN [err |-> pad.err, msg |-> << >>]
    ELSE [err |-> NoErr,
          msg |-> <<HeaderTypeClientPacket>> \o BigEndian(now, 8)
                  \o BigEndian(Len(pad.buf) % 65536, 2) \o pad.buf \o payload]

NoBox == [subkey |-> <<"none", << >>>>, alg |-> "none", nonce |-> << >>, pt |-> << >>,
          tag |-> "none"]

\* a datagram: its length, its first 16 bytes, the bytes after them as one sealed box
Datagram(head, body, bodyLen) ==
    [len |-> SeparateHeaderLen + bodyLen, head |-> head, body |-> body]

\* wrap(data, enCipher, blockCipher)
wrap(data, c, key, now, pad) ==
    LET separateHeader == buildSeparateHeader(c)
        m == buildClientMessage(data, now, pad)
    IN  IF m.err # NoErr THEN [err |-> m.err, out |-> Datagram(NoBox, NoBox, 0), c |-> c]
        ELSE LET r == SealWithNonce(c, << >>, SubSeq(separateHeader, 5, 16), m.msg)
             IN  [err |-> NoErr,
                  out |-> Datagram(BlockEncrypt(key, separateHeader), r.out[1],
                                   Len(m.msg) + 16),
                  c |-> r.c]

Unwrapped(kind, err, payload, used, derived) ==
    [kind |-> kind, err |-> err, payload |-> payload, used |-> used, derived |-> derived]

parseServerMessagePastOnly(data, c, nowMs) ==
    IF Len(data) < ServerMessageMin THEN [err |-> Err("server message too short"), data |-> << >>]
    ELSE IF data[1] # HeaderTypeServerPacket THEN [err |-> Err("ErrHeaderType"), data |-> << >>]
    ELSE IF nowMs - BigEndianUint(SubSeq(data, 2, 9)) * 1000 > MaxSkewSeconds * 1000
    THEN [err |-> Err("timestamp skewed"), data |-> << >>]
    ELSE IF SubSeq(data, 10, 17) # c.salt
    THEN [err |-> Err("client session ID mismatch"), data |-> << >>]
    ELSE LET paddingLen == BigEndianUint(SubSeq(data, 18, 19))
         IN  IF Len(data) < ServerMessageMin + paddingLen
             THEN [err |-> Err("invalid padding length"), data |-> << >>]
             ELSE [err |-> NoErr,
                   data |-> SubSeq(data, ServerMessageMin + paddingLen + 1, Len(data))]

\* parseServerMessage(data, enCipher) at a time of nowMs milliseconds
parseServerMessage(data, c, nowMs) ==
    IF Len(data) < ServerMessageMin THEN [err |-> Err("server message too short"), data |-> << >>]
    ELSE IF data[1] # HeaderTypeServerPacket THEN [err |-> Err("ErrHeaderType"), data |-> << >>]
    ELSE LET since == nowMs - BigEndianUint(SubSeq(data, 2, 9)) * 1000
             abs == IF since < 0 THEN 0 - since ELSE since
         IN  IF abs > MaxSkewSeconds * 1000
             THEN [err |-> Err("timestamp skewed"), data |-> << >>]
             ELSE IF SubSeq(data, 10, 17) # c.salt
             THEN [err |-> Err("client session ID mismatch"), data |-> << >>]
             ELSE LET paddingLen == BigEndianUint(SubSeq(data, 18, 19))
                  IN  IF Len(data) < ServerMessageMin + paddingLen
                      THEN [err |-> Err("invalid padding length"), data |-> << >>]
                      ELSE [err |-> NoErr,
                            data |-> SubSeq(data, ServerMessageMin + paddingLen + 1, Len(data))]

\* unwrap(data, enCipher, deCipher, blockCipher): data[:16] is within the capacity of the
\* reader's buffer whatever len(data) is; data[16:] is out of range when len(data) < 16.
\* used is the decrypt context the call ended with, derived whether this call made it
unwrap(data, enc, dec, key, nowMs) ==
    LET separateHeader == BlockDecrypt(key, data.head)
        derived == dec = NoCipher
        d == IF derived THEN ReNew(enc, SubSeq(separateHeader, 1, 8))
             ELSE [err |-> "nil", c |-> dec]
    IN  IF d.err # "nil" THEN Unwrapped("err", Err(d.err), << >>, NoCipher, derived)
        ELSE IF data.len < SeparateHeaderLen
        THEN Unwrapped("panic", Err("slice bounds out of range"), << >>, d.c, derived)
        ELSE LET o == OpenWithNonce(d.c, SubSeq(separateHeader, 5, 16), data.body)
             IN  IF o.err # "nil" THEN Unwrapped("err", Err(o.err), << >>, o.c, derived)
                 ELSE LET p == parseServerMessage(o.pt, enc, nowMs)
                      IN  Unwrapped(IF p.err = NoErr THEN "ok" ELSE "err", p.err, p.data,
                                    o.c, derived)

(* ---- one session and what its server may send ---- *)

SessionSalt == Repeat(7, 8)        \* NewSalt(8) in loadOrStoreSession
ServerSid == Repeat(9, 8)          \* the server's session id
RestartedSid == Repeat(8, 8)       \* its session id after it has restarted
PadDraws == {0, 99}                \* what rand.UintN(100) may draw
SentBefore == {0, 255}             \* packets the session wrapped before the run
UdpPayload == AddrBytes([ATYP |-> AtypIPV4, Addr |-> <<10, 0, 0, 1>>, Port |-> 53]) \o <<42>>
PacketTypes == {HeaderTypeClientPacket, HeaderTypeServerPacket, 2}
PacketTimeStamps == {NowSeconds - 31, NowSeconds - 30, NowSeconds, NowSeconds + 30,
                     NowSeconds + 31}
PacketEchoes == {SessionSalt, [SessionSalt EXCEPT ![8] = 6]}
SentPadding == <<0, 0>>            \* the padding a server message carries, unless it declares none
DeclaredPaddings == {0, 2, 10, 11} \* the padding length a server message declares
PacketFaults == {"tag", "nonce", "key", "block", "tiny", "short", "empty"}

\* the server's message body
ServerMessage(ht, ts, echo, paddingLen) ==
    <<ht>> \o BigEndian(ts, 8) \o echo \o BigEndian(paddingLen, 2)
           \o (IF paddingLen = 0 THEN << >> ELSE SentPadding) \o UdpPayload

\* the server's packet id'th datagram of its session sid
ServerDatagram(sid, id, msg, fault) ==
    LET key == IF fault = "key" THEN OtherKey ELSE StreamKey
        srv == NewCipher(key, sid, StreamMethod).c
        separateHeader == sid \o BigEndian(id, 8)
        nonce == SubSeq(separateHeader, 5, 16)
        m == IF fault = "tiny" THEN SubSeq(msg, 1, ServerMessageMin - 1) ELSE msg
        box == SealWithNonce(srv, << >>, IF fault = "nonce" THEN LE(id + 1) ELSE nonce, m).out[1]
        head == BlockEncrypt(IF fault = "block" THEN OtherKey ELSE StreamKey, separateHeader)
    IN  IF fault = "short" THEN [len |-> SeparateHeaderLen - 1, head |-> head, body |-> NoBox]
        ELSE IF fault = "empty" THEN Datagram(head, [NoBox EXCEPT !.tag = "short"], 0)
        ELSE Datagram(head, IF fault = "tag" THEN [box EXCEPT !.tag = "forged"] ELSE box,
                      Len(m) + 16)

\* what the server meant to send, and the datagram d that arrives
ServerPacket(sid, id, ht, ts, echo, pl, fault) ==
    [sid |-> sid, ht |-> ht, ts |-> ts, echo |-> echo, pl |-> pl, fault |-> fault,
     msg |-> ServerMessage(ht, ts, echo, pl),
     d |-> ServerDatagram(sid, id, ServerMessage(ht, ts, echo, pl), fault)]

ServerPackets ==
    {ServerPacket(ServerSid, 0, ht, ts, echo, pl, "none") :
        ht \in PacketTypes, ts \in PacketTimeStamps, echo \in PacketEchoes,
        pl \in DeclaredPaddings}
    \cup {ServerPacket(ServerSid, 1, HeaderTypeServerPacket, NowSeconds, SessionSalt, 2, f) :
            f \in PacketFaults}
    \cup {ServerPacket(RestartedSid, 0, HeaderTypeServerPacket, NowSeconds, SessionSalt, 2,
                       "none")}

NoPacket == ServerPacket(Repeat(0, 8), 0, 0, 0, Repeat(0, 8), 0, "empty")

NoUnwrap == Unwrapped("none", NoErr, << >>, NoCipher, FALSE)

\* loadOrStoreSession has made the session: enCipher from a fresh 8-byte salt, deCipher nil;
\* base packets have gone out before the run begins
InitPacket ==
    \E base \in SentBefore, now \in NowMsChoices :
        ups = [pc |-> "run", base |-> base, nowMs |-> now,
               enCipher |-> [NewCipher(StreamKey, SessionSalt, StreamMethod).c
                                EXCEPT !.counter = LE(base)],
               deCipher |-> NoCipher,
               sent |-> << >>, nrecv |-> 0, pkt |-> NoPacket,
               last |-> NoUnwrap, first |-> NoUnwrap, forwarded |-> << >>]

\* wrapAndWrite after HandleInbound: wrap, then serverConn.Write
Wrap(p, n) ==
    /\ ups.pc = "run" /\ Len(ups.sent) < MaxPackets
    /\ LET w == wrap(p, ups.enCipher, StreamKey, NowSeconds, Padding(1, UdpPaddingMax, n, 170))
       IN  ups' = [ups EXCEPT !.enCipher = w.c,
                              !.sent = IF w.err = NoErr THEN Append(@, w.out) ELSE @]
    /\ UNCHANGED <<call, stc>>
    /\ UNCHANGED <<cipherVars, sealers, udpVars, tcpVars>>

\* relayFromServer, one iteration: serverConn.Read gave pk.d; unwrap(buf[:n], s.enCipher,
\* s.deCipher, ...); on success the payload goes on to HandleOutbound and ln.WriteTo, on an
\* error the reader returns. unwrap assigns the context it derives to its own parameter:
\* s.deCipher is not written
ReaderUnwrap(pk) ==
    /\ ups.pc = "run" /\ ups.nrecv < MaxDatagrams
    /\ LET u == unwrap(pk.d, ups.enCipher, ups.deCipher, StreamKey, ups.nowMs)
       IN  ups' = [ups EXCEPT !.nrecv = @ + 1, !.pkt = pk, !.last = u,
                              !.first = IF @.kind = "ok" \/ u.kind # "ok" THEN @ ELSE u,
                              !.forwarded = IF u.kind = "ok" THEN Append(@, u.payload) ELSE @,
                              !.pc = IF u.kind = "ok" THEN "run" ELSE "exit"]
    /\ UNCHANGED <<call, stc>>
    /\ UNCHANGED <<cipherVars, sealers, udpVars, tcpVars>>

NextPacket ==
    \/ \E p \in {UdpPayload}, n \in PadDraws : Wrap(p, n)
    \/ \E pk \in ServerPackets : ReaderUnwrap(pk)

InitPacketSpec ==
    /\ InitPacket /\ call = [fn |-> "none"] /\ stc = [pc |-> "off"]
    /\ CipherIdle /\ SealersIdle /\ UdpIdle /\ TcpIdle

SpecPacket == InitPacketSpec /\ [][NextPacket]_vars

----------------------------------------------------------------------------
(* handler: UDPSocks5PacketHandler, UDPTunnelPacketHandler *)

MaxPacketBytes == 4  \* length of the client packets that are enumerated in full

Handled(err, out) == [err |-> err, out |-> out]

Socks5HandleInboundDropsFour(packet) ==
    IF Len(packet) < 3 THEN Handled(Err("packet too short"), << >>)
    ELSE Handled(NoErr, SubSeq(packet, 5, Len(packet)))

\* UDPSocks5PacketHandler.HandleInbound: packet[3:]
Socks5HandleInbound(packet) ==
    IF Len(packet) < 3 THEN Handled(Err("packet too short"), << >>)
    ELSE Handled(NoErr, SubSeq(packet, 4, Len(packet)))

\* UDPSocks5PacketHandler.HandleOutbound: append(make([]byte, 3), packet...)
Socks5HandleOutbound(packet) == Handled(NoErr, Repeat(0, 3) \o packet)

\* UDPTunnelPacketHandler.HandleInbound
TunnelHandleInbound(forwardAddr, packet) == Handled(NoErr, AddrBytes(forwardAddr) \o packet)

\* UDPTunnelPacketHandler.HandleOutbound: what ReadAddrFrom left in the buffer
TunnelHandleOutbound(packet) ==
    LET r == ReadAddrFrom(packet)
    IN  IF r.err # NoErr THEN Handled(r.err, << >>)
        ELSE Handled(NoErr, SubSeq(packet, r.n + 1, Len(packet)))

\* client packets: every string of at most MaxPacketBytes bytes over a zero, an address
\* type and another byte, and those strings behind an encoded address
PacketBytes == {0, AtypIPV4, 9}
ShortPackets == UNION {[1 .. n -> PacketBytes] : n \in 0 .. MaxPacketBytes}
AddressedPackets ==
    {AddrBytes(a) \o q : a \in WellFormedAddrs, q \in {p \in ShortPackets : Len(p) <= 2}}
HandlerPackets == ShortPackets \cup AddressedPackets
Directions == {"in", "out", "out-in", "in-out"}

\* one call of the SOCKS5 handler, or HandleInbound on what HandleOutbound returned
Socks5Call(dir, p) ==
    /\ call.fn = "none" /\ dir \in {"in", "out", "out-in"}
    /\ call' = [fn |-> "socks5", dir |-> dir, forwardAddr |-> NoAddr, in |-> p,
                res |-> IF dir = "in" THEN Socks5HandleInbound(p)
                        ELSE IF dir = "out" THEN Socks5HandleOutbound(p)
                        ELSE Socks5HandleInbound(Socks5HandleOutbound(p).out)]
    /\ UNCHANGED <<ups, stc>>
    /\ UNCHANGED <<cipherVars, sealers, udpVars, tcpVars>>

\* one call of the tunnel handler, or HandleOutbound on what HandleInbound returned
TunnelCall(dir, forwardAddr, p) ==
    /\ call.fn = "none" /\ dir \in {"in", "out", "in-out"}
    /\ call' = [fn |-> "tunnel", dir |-> dir, forwardAddr |-> forwardAddr, in |-> p,
                res |-> IF dir = "in" THEN TunnelHandleInbound(forwardAddr, p)
                        ELSE IF dir = "out" THEN TunnelHandleOutbound(p)
                        ELSE TunnelHandleOutbound(TunnelHandleInbound(forwardAddr, p).out)]
    /\ UNCHANGED <<ups, stc>>
    /\ UNCHANGED <<cipherVars, sealers, udpVars, tcpVars>>

NextHandlers ==
    \/ \E dir \in Directions, p \in HandlerPackets : Socks5Call(dir, p)
    \/ \E dir \in Directions, a \in WellFormedAddrs \cup ForwardAddrs, p \in HandlerPackets :
          TunnelCall(dir, a, p)

InitCallSpec ==
    /\ call = [fn |-> "none"] /\ ups = [pc |-> "off"] /\ stc = [pc |-> "off"]
    /\ CipherIdle /\ SealersIdle /\ UdpIdle /\ TcpIdle

SpecHandlers == InitCallSpec /\ [][NextHandlers]_vars

(* ---- Padding called with arguments of every size ---- *)

\* uint16 arguments at and next to the values the code compares with
PaddingMins == {0, 1, 2, 100, 900, MaxPaddingArg, MaxPaddingArg + 1, MaxPaddingArg + 2}
PaddingMaxs == {0, 1, 2, 100, 900, 901, MaxPaddingArg, MaxPaddingArg + 1, MaxPaddingArg + 2}
PaddingDraws == {0, 1, 99, 899, 900, MaxPaddingArg - 1}

\* padding, err := Padding(min, max), rand.UintN(uint(max)) drawing n below the clamped max
PaddingCall(min, max, n) ==
    /\ call.fn = "none"
    /\ IF max = 0 THEN n = 0 ELSE n < max /\ n < MaxPaddingArg
    /\ call' = [fn |-> "Padding", min |-> min, max |-> max, n |-> n,
                res |-> Padding(min, max, n, 170)]
    /\ UNCHANGED <<ups, stc>>
    /\ UNCHANGED <<cipherVars, sealers, udpVars, tcpVars>>

NextPadding == \E min \in PaddingMins, max \in PaddingMaxs, n \in PaddingDraws : PaddingCall(min, max, n)

SpecPadding == InitCallSpec /\ [][NextPadding]_vars

(* ---- NewCipher called with keys of every size and methods of every name ---- *)

KeySizes == {0, 1, 15, 16, 17, 24, 31, 32, 33, 64}
CallKeys == {[id |-> "k", len |-> n] : n \in KeySizes}
CallMethods == Methods \cup {"", "aes-128-gcm", "2022-blake3-aes-192-gcm", "chacha20-poly1305"}
CallSalts == {<< >>, SessionSalt, ClientSalt, Repeat(3, 32)}

\* c, err := NewCipher(key, salt, method)
NewCipherCall(key, salt, method) ==
    /\ call.fn = "none"
    /\ call' = [fn |-> "NewCipher", key |-> key, salt |-> salt, method |-> method,
                res |-> NewCipher(key, salt, method)]
    /\ UNCHANGED <<ups, stc>>
    /\ UNCHANGED <<cipherVars, sealers, udpVars, tcpVars>>

NextNewCipher ==
    \E key \in CallKeys, salt \in CallSalts, method \in CallMethods :
        NewCipherCall(key, salt, method)

SpecNewCipher == InitCallSpec /\ [][NextNewCipher]_vars

----------------------------------------------------------------------------
(* cipher.go: Cipher.Seals; tcp.go: writeClientHandshake, ShadowTCPConn.Write, Read *)

MaxPlaintexts == 3   \* plaintexts handed to one Seals call
MaxWrites == 2       \* Write calls on one stream connection
MaxReads == 4        \* Read calls on one stream connection
MaxFrames == 2       \* framed chunks the server sends on one stream connection

MaxPaddingLength == 900
MaxInitialPayloadLength == 8192
MaxPayloadLength == 65535          \* 0xFFFF: buf := make([]byte, MaxPayloadLength)

RECURSIVE SealsOneNonce(_, _, _)
SealsOneNonce(c, dst, plaintexts) ==
    IF plaintexts = << >> THEN [out |-> dst, c |-> c]
    ELSE LET r == SealsOneNonce(c, AeadSeal(c, dst, Nonce(c), Head(plaintexts)),
                                Tail(plaintexts))
         IN  [out |-> r.out, c |-> [r.c EXCEPT !.counter = Count(r.c.counter)]]

RECURSIVE Seals(_, _, _)
\* Cipher.Seals: dst = c.Seal(dst, plaintext) for each plaintext in turn
Seals(c, dst, plaintexts) ==
    IF plaintexts = << >> THEN [out |-> dst, c |-> c]
    ELSE LET r == Seal(c, dst, Head(plaintexts))
         IN  Seals(r.c, r.out, Tail(plaintexts))

\* requestVLH.Bytes
requestVLHBytes(addr, padding, initialPayload) == AddrBytes(addr) \o padding \o initialPayload

requestFLHBytesOneByte(now, vlh) ==
    <<HeaderTypeClientStream>> \o BigEndian(now, 8) \o BigEndian(Len(vlh) % 256, 2)

\* newRequestFLH(vlh).Bytes() at time now: l is uint16(len(vlh))
requestFLHBytes(now, vlh) ==
    <<HeaderTypeClientStream>> \o BigEndian(now, 8) \o BigEndian(Len(vlh) % 65536, 2)

\* writeClientHandshake on a connection whose encrypt context is c; pad is what
\* Padding(1, MaxPaddingLength) returned, wok whether shadowConn.Write succeeded
writeClientHandshake(c, targetAddr, initialPayload, now, pad, wok) ==
    IF pad.kind # "ok" THEN [err |-> pad.err, c |-> c, wrote |-> << >>]
    ELSE LET vlhBytes == requestVLHBytes(targetAddr, pad.buf, initialPayload)
             flhBytes == requestFLHBytes(now, vlhBytes)
             r == Seals(c, c.salt, <<flhBytes, vlhBytes>>)
         IN  [err |-> IF wok THEN NoErr ELSE Err("io"), c |-> r.c,
              wrote |-> IF wok THEN r.out ELSE << >>]

StcWritePayloadFirst(c, p, wok) ==
    LET lenBytes == <<(Len(p) \div 256) % 256, Len(p) % 256>>
        a == Seal(c, << >>, p)
        b == Seal(a.c, a.out, lenBytes)
    IN  [n |-> IF wok THEN Len(p) ELSE 0, err |-> IF wok THEN NoErr ELSE Err("io"),
         c |-> b.c, wrote |-> IF wok THEN b.out ELSE << >>]

\* ShadowTCPConn.Write(p): the two low bytes of len(p) sealed, then p sealed
StcWrite(c, p, wok) ==
    LET lenBytes == <<(Len(p) \div 256) % 256, Len(p) % 256>>
        a == Seal(c, << >>, lenBytes)
        b == Seal(a.c, a.out, p)
    IN  [n |-> IF wok THEN Len(p) ELSE 0, err |-> IF wok THEN NoErr ELSE Err("io"),
         c |-> b.c, wrote |-> IF wok THEN b.out ELSE << >>]

\* copy(p, src) into a buffer of pLen bytes
CopyOut(pLen, src) == SubSeq(src, 1, IF pLen < Len(src) THEN pLen ELSE Len(src))

StcReadDropsRest(s, pLen) ==
    LET n == CopyOut(pLen, s.handshakePayload)
    IN  [n |-> Len(n), bytes |-> n, err |-> NoErr, s |-> [s EXCEPT !.handshakePayload = << >>]]

\* Read, second part: what is left of the early payload goes out first, as much as p holds
StcReadEarly(s, pLen) ==
    LET n == CopyOut(pLen, s.handshakePayload)
    IN  [n |-> Len(n), bytes |-> n, err |-> NoErr,
         s |-> [s EXCEPT !.handshakePayload = SubSeq(@, Len(n) + 1, Len(@))]]

\* Read, third part: one framed chunk; of its payload as much as p holds is returned
StcReadChunk(s, pLen) ==
    IF s.in = << >> THEN [n |-> 0, bytes |-> << >>, err |-> Err("EOF"), s |-> s]
    ELSE IF s.deCipher = NoCipher
    THEN [n |-> 0, bytes |-> << >>, err |-> Err("nil pointer dereference"), s |-> s]
    ELSE LET lenChunk == Open(s.deCipher, Head(s.in).len)
         IN  IF lenChunk.err # "nil"
             THEN [n |-> 0, bytes |-> << >>, err |-> Err(lenChunk.err),
                   s |-> [s EXCEPT !.in = << >>]]
             ELSE LET plaintext == Open(lenChunk.c, Head(s.in).payload)
                  IN  IF plaintext.err # "nil"
                      THEN [n |-> 0, bytes |-> << >>, err |-> Err(plaintext.err),
                            s |-> [s EXCEPT !.in = << >>, !.deCipher = lenChunk.c]]
                      ELSE [n |-> Len(CopyOut(pLen, plaintext.pt)),
                            bytes |-> CopyOut(pLen, plaintext.pt), err |-> NoErr,
                            s |-> [s EXCEPT !.in = Tail(@), !.deCipher = plaintext.c,
                                            !.nchunks = @ + 1]]

\* what the next Read finds when readServerHandshake returned before it read the early
\* payload: 2+16 bytes that are not a sealed length
Leftover(box) == <<[len |-> [box EXCEPT !.tag = "forged"], payload |-> box]>>

\* ShadowTCPConn.Read(p) with len(p) = pLen: the server handshake on the first call, under
\* readServerHandshakeOnce; its error is a variable of that one call
StcRead(s, pLen) ==
    LET h == readServerHandshake(s.enCipher, s.resp, s.nowMs)
        unread == h.err # NoErr /\ s.resp.more.kind = "box" /\ ~(h.parsed /\ h.parseErr = NoErr)
        t == IF s.once THEN s
             ELSE [s EXCEPT !.once = TRUE, !.deCipher = h.deCipher,
                            !.handshakePayload = h.handshakePayload,
                            !.attempt = [n |-> @.n + 1, err |-> h.err],
                            !.in = IF unread THEN Leftover(s.resp.more.box) ELSE @]
    IN  IF ~s.once /\ h.err # NoErr
        THEN [n |-> 0, bytes |-> << >>, err |-> h.err, s |-> t]
        ELSE IF Len(t.handshakePayload) > 0 THEN StcReadEarly(t, pLen)
        ELSE StcReadChunk(t, pLen)

(* ---- one stream connection: what it writes ---- *)

NoWrite == [n |-> 0, err |-> NoErr, wrote |-> << >>]
NoRead == [n |-> 0, bytes |-> << >>, err |-> NoErr]

\* NewShadowTCPConn has returned: enCipher from a fresh salt, no deCipher, nothing read or
\* written; the server will answer with resp and then send the chunks in
NewStc(resp, l, frames) ==
    [pc |-> "new", enCipher |-> StreamEnCipher, deCipher |-> NoCipher, once |-> FALSE,
     handshakePayload |-> << >>, resp |-> resp, l |-> l, nowMs |-> NowSeconds * 1000,
     in |-> frames, nchunks |-> 0, attempt |-> [n |-> 0, err |-> NoErr],
     handshake |-> [targetAddr |-> NoAddr, initialPayload |-> << >>, pad |-> << >>,
                    err |-> NoErr, wrote |-> << >>],
     nwrites |-> 0, p |-> << >>, lastWrite |-> NoWrite,
     nreads |-> 0, lastRead |-> NoRead, delivered |-> << >>]

\* what Stream is given: a target, the initial payload, and what rand.UintN(900) draws
\* the longest target, a domain name of 255 bytes, and the longest initial payload
LongestAddr == [ATYP |-> AtypDomain, Addr |-> Repeat(97, 255), Port |-> 443]
LongestInitialPayload == Repeat(3, MaxInitialPayloadLength)

HandshakeArgs ==
    {[targetAddr |-> a, initialPayload |-> ip, n |-> n] :
        a \in WellFormedAddrs, ip \in {<< >>, <<1, 2>>}, n \in {0, MaxPaddingLength - 1}}
    \cup {[targetAddr |-> LongestAddr, initialPayload |-> LongestInitialPayload, n |-> n] :
            n \in {0, MaxPaddingLength - 1}}

\* what io.CopyBuffer hands to Write: between 1 and MaxPayloadLength bytes
WriteSizes == {1, 256, MaxPayloadLength}

SealsDsts == {<< >>, ClientSalt}
SealsPlaintexts == UNION {[1 .. k -> Payloads] : k \in 0 .. MaxPlaintexts}

InitStreamWrite ==
    stc = NewStc(ServerResponse(StreamKey, HeaderTypeServerStream, NowSeconds, ClientSalt, 0,
                                "none"), 0, << >>)

\* TestCipher_Seals: Seals(dst, plaintexts...) on a context that has counted base times
SealsCall(base, dst, plaintexts) ==
    /\ stc.pc = "new" /\ call.fn = "none"
    /\ call' = [fn |-> "Seals", base |-> base, dst |-> dst, plaintexts |-> plaintexts,
                res |-> Seals([StreamEnCipher EXCEPT !.counter = LE(base)], dst, plaintexts)]
    /\ UNCHANGED <<ups, stc>>
    /\ UNCHANGED <<cipherVars, sealers, udpVars, tcpVars>>

\* Stream: stc.writeClientHandshake(targetAddr, initialPayload); a failure is logged and
\* Stream goes on
StreamBegin(a, wok) ==
    /\ stc.pc = "new" /\ call.fn = "none"
    /\ LET pad == Padding(1, MaxPaddingLength, a.n, 170)
           w == writeClientHandshake(stc.enCipher, a.targetAddr, a.initialPayload,
                                     NowSeconds, pad, wok)
       IN  stc' = [stc EXCEPT !.pc = "open", !.enCipher = w.c,
                              !.handshake = [targetAddr |-> a.targetAddr,
                                             initialPayload |-> a.initialPayload,
                                             pad |-> pad.buf, err |-> w.err,
                                             wrote |-> w.wrote]]
    /\ UNCHANGED <<ups, call>>
    /\ UNCHANGED <<cipherVars, sealers, udpVars, tcpVars>>

\* io.CopyBuffer(stc, conn, buf): one stc.Write(p) of size bytes; the copy ends on an error
WriteCall(size, wok) ==
    /\ stc.pc = "open" /\ stc.nwrites < MaxWrites /\ stc.lastWrite.err = NoErr
    /\ LET p == Repeat(5, size)
           w == StcWrite(stc.enCipher, p, wok)
       IN  stc' = [stc EXCEPT !.enCipher = w.c, !.nwrites = @ + 1, !.p = p,
                              !.lastWrite = [n |-> w.n, err |-> w.err, wrote |-> w.wrote]]
    /\ UNCHANGED <<ups, call>>
    /\ UNCHANGED <<cipherVars, sealers, udpVars, tcpVars>>

NextStreamWrite ==
    \/ \E base \in SentBefore, dst \in SealsDsts, ps \in SealsPlaintexts : SealsCall(base, dst, ps)
    \/ \E a \in HandshakeArgs, wok \in BOOLEAN : StreamBegin(a, wok)
    \/ \E size \in WriteSizes, wok \in BOOLEAN : WriteCall(size, wok)

InitStreamWriteSpec ==
    /\ InitStreamWrite /\ call = [fn |-> "none"] /\ ups = [pc |-> "off"]
    /\ CipherIdle /\ SealersIdle /\ UdpIdle /\ TcpIdle

SpecStreamWrite == InitStreamWriteSpec /\ [][NextStreamWrite]_vars

(* ---- one stream connection: what it reads ---- *)

\* the payload of the server's i-th framed chunk
FramePayload(i) == <<10 + i, 20 + i, 30 + i, 40 + i>>

\* the server's i-th framed chunk when its handshake took base counter values
Frame(base, i) ==
    LET srv == NewCipher(StreamKey, ServerSalt, StreamMethod).c
    IN  [len |-> AeadSeal(srv, << >>, LE(base + 2 * (i - 1)),
                          BigEndian(Len(FramePayload(i)), 2))[1],
         payload |-> AeadSeal(srv, << >>, LE(base + 2 * (i - 1) + 1), FramePayload(i))[1]]

Frames(l, k) == [i \in 1 .. k |-> Frame(IF l = 0 THEN 1 ELSE 2, i)]

\* what io.Copy hands to Read: buffers shorter than, as long as, longer than what is due
ReadSizes == {1, 2, 3, 4}

\* the handshake has been written; the server answers, well or badly, and sends k chunks
InitStreamRead ==
    \E l \in {0, 3}, fault \in {"none", "flh", "cut", "more"}, k \in 0 .. MaxFrames :
        /\ l = 0 => fault \in {"none", "flh"}
        /\ fault = "cut" => k = 0
        /\ stc = [NewStc(ServerResponse(StreamKey, HeaderTypeServerStream, NowSeconds,
                                        ClientSalt, l, fault), l, Frames(l, k))
                     EXCEPT !.pc = "open", !.enCipher.counter = LE(2)]

\* io.CopyBuffer(conn, stc, buf): one stc.Read(p) with len(p) = pLen, and conn.Write of
\* what it returned; the copy ends on an error
ReadCall(pLen) ==
    /\ stc.pc = "open" /\ stc.nreads < MaxReads /\ stc.lastRead.err = NoErr
    /\ LET r == StcRead(stc, pLen)
       IN  stc' = [r.s EXCEPT !.nreads = @ + 1,
                              !.lastRead = [n |-> r.n, bytes |-> r.bytes, err |-> r.err],
                              !.delivered = @ \o r.bytes]
    /\ UNCHANGED <<ups, call>>
    /\ UNCHANGED <<cipherVars, sealers, udpVars, tcpVars>>

NextStreamRead == \E pLen \in ReadSizes : ReadCall(pLen)

InitStreamReadSpec ==
    /\ InitStreamRead /\ call = [fn |-> "none"] /\ ups = [pc |-> "off"]
    /\ CipherIdle /\ SealersIdle /\ UdpIdle /\ TcpIdle

SpecStreamRead == InitStreamReadSpec /\ [][NextStreamRead]_vars

(* ---- one stream connection: Read called again after an error ---- *)

\* what the server may answer: l as it declares it, the bytes it sends, whether the stream
\* ends with them
Answer(ht, ts, echo, l, fault) ==
    [l |-> l, ended |-> fault \in {"cut", "short"},
     resp |-> IF fault = "short" THEN ShortResponse
              ELSE ServerResponse(StreamKey, ht, ts, echo, l, fault)]

Answers ==
    {Answer(HeaderTypeServerStream, ts, ClientSalt, l, "none") :
        ts \in {NowSeconds, NowSeconds - 31}, l \in {0, 3}}
    \cup {Answer(ht, NowSeconds, echo, l, "none") :
            ht \in {HeaderTypeClientStream}, echo \in {ClientSalt, ServerSalt}, l \in {0, 3}}
    \cup {Answer(HeaderTypeServerStream, NowSeconds, ClientSalt, 0, f) : f \in {"flh", "short"}}
    \cup {Answer(HeaderTypeServerStream, NowSeconds, ClientSalt, 3, f) :
            f \in {"flh", "cut", "more"}}

InitStreamRetry ==
    \E a \in Answers, k \in 0 .. MaxFrames :
        /\ a.ended => k = 0
        /\ stc = [NewStc(a.resp, a.l, Frames(a.l, k))
                     EXCEPT !.pc = "open", !.enCipher.counter = LE(2)]

\* stc.Read(p) by a caller that reads again whatever the call before returned
ReadAgain(pLen) ==
    /\ stc.pc = "open" /\ stc.nreads < MaxReads
    /\ LET r == StcRead(stc, pLen)
       IN  stc' = [r.s EXCEPT !.nreads = @ + 1,
                              !.lastRead = [n |-> r.n, bytes |-> r.bytes, err |-> r.err],
                              !.delivered = @ \o r.bytes]
    /\ UNCHANGED <<ups, call>>
    /\ UNCHANGED <<cipherVars, sealers, udpVars, tcpVars>>

NextStreamRetry == \E pLen \in ReadSizes : ReadAgain(pLen)

InitStreamRetrySpec ==
    /\ InitStreamRetry /\ call = [fn |-> "none"] /\ ups = [pc |-> "off"]
    /\ CipherIdle /\ SealersIdle /\ UdpIdle /\ TcpIdle

SpecStreamRetry == InitStreamRetrySpec /\ [][NextStreamRetry]_vars

(* ---- constructors that open a socket: NewShadowTCPConn, NewRelayer ---- *)

\* what a constructor returned and what it left behind: open is whether the socket it
\* opened is still open and in nobody's hands when it has returned
Constructed(err, made, open) == [err |-> err, made |-> made, open |-> open]

\* NewShadowTCPConn: net.DialTCP, NewSalt, NewCipher, each returning on its error
NewShadowTCPConn(key, method, dialOk, saltOk) ==
    IF ~dialOk THEN Constructed(Err("dial"), FALSE, FALSE)
    ELSE IF ~saltOk THEN Constructed(Err("rand"), FALSE, TRUE)
    ELSE LET c == NewCipher(key, ClientSalt, method)
         IN  IF c.err # "nil" THEN Constructed(Err(c.err), FALSE, TRUE)
             ELSE Constructed(NoErr, TRUE, TRUE)

\* NewRelayer: net.ListenUDP, then aes.NewCipher(key), which takes keys of 16, 24 and 32
\* bytes, each returning on its error
NewRelayer(key, listenOk) ==
    IF ~listenOk THEN Constructed(Err("listen"), FALSE, FALSE)
    ELSE IF key.len \notin {16, 24, 32} THEN Constructed(Err("KeySizeError"), FALSE, TRUE)
    ELSE Constructed(NoErr, TRUE, TRUE)

\* handleConnection: stc, err := shadowsocks.NewShadowTCPConn(c.serverAddr, c.key, ...)
NewShadowTCPConnCall(key, method, dialOk, saltOk) ==
    /\ call.fn = "none"
    /\ call' = [fn |-> "NewShadowTCPConn", key |-> key, method |-> method,
                res |-> NewShadowTCPConn(key, method, dialOk, saltOk)]
    /\ UNCHANGED <<ups, stc>>
    /\ UNCHANGED <<cipherVars, sealers, udpVars, tcpVars>>

\* the UDP client: r, err := shadowsocks.NewRelayer(key, method, listenAddr, ...)
NewRelayerCall(key, listenOk) ==
    /\ call.fn = "none"
    /\ call' = [fn |-> "NewRelayer", key |-> key, method |-> StreamMethod,
                res |-> NewRelayer(key, listenOk)]
    /\ UNCHANGED <<ups, stc>>
    /\ UNCHANGED <<cipherVars, sealers, udpVars, tcpVars>>

NextConstructors ==
    \/ \E key \in CallKeys, method \in CallMethods, dialOk \in BOOLEAN, saltOk \in BOOLEAN :
          NewShadowTCPConnCall(key, method, dialOk, saltOk)
    \/ \E key \in CallKeys, listenOk \in BOOLEAN : NewRelayerCall(key, listenOk)

SpecConstructors == InitCallSpec /\ [][NextConstructors]_vars

(* ---- client.go: tcpProxy.handleConnection after the SOCKS5 handshake; ---- *)
(* ---- tcp.go: ReadInitialPayload                                         ---- *)

InitialPayloadTimeout == 50             \* ReadInitialPayload(conn, 50*time.Millisecond)
NowMillis == NowSeconds * 1000          \* time.Now() when ReadInitialPayload is entered

\* what the local client sends right after the handshake, when it arrives (milliseconds
\* after ReadInitialPayload is entered), and what it does to the connection otherwise
EarlyData == {<< >>, <<1>>, <<1, 2, 3>>, Repeat(7, MaxInitialPayloadLength),
              Repeat(7, MaxInitialPayloadLength) \o <<8>>}
ArrivalTimes == {0, InitialPayloadTimeout - 1, InitialPayloadTimeout}
PeerFaults == {"none", "EOF", "reset"}

NoReadYet == [n |-> 0, data |-> << >>, err |-> NoErr, under |-> 0]

\* n, err := conn.Read(buf) under the read deadline: bytes that arrived before the deadline
\* are returned, up to len(buf) and as many as want says; with none, the peer's close or
\* reset, and otherwise the deadline's timeout
ConnRead(c, bufLen, want) ==
    LET arrived == IF NowMillis + c.at < c.readDeadline THEN c.inbound ELSE << >>
        fit == IF Len(arrived) < bufLen THEN Len(arrived) ELSE bufLen
        n == IF fit < want THEN fit ELSE want
    IN  IF n > 0 THEN [n |-> n, data |-> SubSeq(arrived, 1, n), err |-> NoErr]
        ELSE IF c.fault # "none" THEN [n |-> 0, data |-> << >>, err |-> Err(c.fault)]
        ELSE [n |-> 0, data |-> << >>, err |-> Err("i/o timeout")]

\* netErr.Timeout()
IsTimeout(err) == err.is = "i/o timeout"

\* the state handleConnection is in when Handshake has returned the target address
InitFastOpen ==
    \E fastOpen \in BOOLEAN, data \in EarlyData, at \in ArrivalTimes, fault \in PeerFaults :
        call = [fn |-> "handleConnection", pc |-> "handshaken", fastOpen |-> fastOpen,
                inbound |-> data, at |-> at, fault |-> fault,
                readDeadline |-> 0, reads |-> 0, read |-> NoReadYet,
                initialPayload |-> << >>, payloadErr |-> NoErr, err |-> NoErr,
                dialed |-> FALSE, connClosed |-> FALSE]

\* var initialPayload []byte; if c.fastOpen { ... } not taken
NoFastOpen ==
    /\ call.fn = "handleConnection" /\ call.pc = "handshaken" /\ ~call.fastOpen
    /\ call' = [call EXCEPT !.pc = "dial"]
    /\ UNCHANGED <<ups, stc>>
    /\ UNCHANGED <<cipherVars, sealers, udpVars, tcpVars>>

\* ReadInitialPayload: conn.SetReadDeadline(time.Now().Add(timeout)); its error is returned,
\* handleConnection returns it and its deferred conn.Close() runs
SetInitialReadDeadline(ok) ==
    /\ call.fn = "handleConnection" /\ call.pc = "handshaken" /\ call.fastOpen
    /\ call' = IF ok
               THEN [call EXCEPT !.pc = "read",
                                 !.readDeadline = NowMillis + InitialPayloadTimeout]
               ELSE [call EXCEPT !.pc = "returned", !.payloadErr = Err("set deadline"),
                                 !.err = Err("set deadline"),
                                 !.connClosed = TRUE]
    /\ UNCHANGED <<ups, stc>>
    /\ UNCHANGED <<cipherVars, sealers, udpVars, tcpVars>>

\* the same read, with the timeout passed on as an error like any other
InitialReadTimeoutIsError(want) ==
    /\ call.fn = "handleConnection" /\ call.pc = "read"
    /\ LET r == ConnRead(call, MaxInitialPayloadLength, want)
           failed == r.n = 0 /\ r.err # NoErr
       IN  call' = [call EXCEPT
               !.reads = @ + 1,
               !.read = [n |-> r.n, data |-> r.data, err |-> r.err, under |-> call.readDeadline],
               !.inbound = SubSeq(@, r.n + 1, Len(@)),
               !.readDeadline = 0,
               !.initialPayload = r.data,
               !.payloadErr = IF failed THEN r.err ELSE NoErr,
               !.err = IF failed THEN r.err ELSE NoErr,
               !.pc = IF failed THEN "returned" ELSE "dial",
               !.connClosed = failed]
    /\ UNCHANGED <<ups, stc>>
    /\ UNCHANGED <<cipherVars, sealers, udpVars, tcpVars>>

\* ReadInitialPayload from conn.Read on: one read into a buffer of MaxInitialPayloadLength;
\* n > 0 returns buf[:n]; a timeout returns nil, nil; another error is returned; the deferred
\* SetReadDeadline(time.Time{}) runs; handleConnection returns the error (and closes conn)
\* or keeps the payload
InitialRead(want) ==
    /\ call.fn = "handleConnection" /\ call.pc = "read"
    /\ LET r == ConnRead(call, MaxInitialPayloadLength, want)
           failed == r.n = 0 /\ r.err # NoErr /\ ~IsTimeout(r.err)
       IN  call' = [call EXCEPT
               !.reads = @ + 1,
               !.read = [n |-> r.n, data |-> r.data, err |-> r.err, under |-> call.readDeadline],
               !.inbound = SubSeq(@, r.n + 1, Len(@)),
               !.readDeadline = 0,
               !.initialPayload = r.data,
               !.payloadErr = IF failed THEN r.err ELSE NoErr,
               !.err = IF failed THEN r.err ELSE NoErr,
               !.pc = IF failed THEN "returned" ELSE "dial",
               !.connClosed = failed]
    /\ UNCHANGED <<ups, stc>>
    /\ UNCHANGED <<cipherVars, sealers, udpVars, tcpVars>>

\* stc, err := shadowsocks.NewShadowTCPConn(c.serverAddr, c.key, c.cipherMethod); its error
\* is returned; otherwise stc.Stream starts with the initial payload
DialServer(dialOk, saltOk) ==
    /\ call.fn = "handleConnection" /\ call.pc = "dial"
    /\ LET res == NewShadowTCPConn(StreamKey, StreamMethod, dialOk, saltOk)
       IN  call' = [call EXCEPT !.dialed = dialOk,
                                !.err = res.err,
                                !.pc = IF res.err = NoErr THEN "stream" ELSE "returned",
                                !.connClosed = res.err # NoErr]
    /\ UNCHANGED <<ups, stc>>
    /\ UNCHANGED <<cipherVars, sealers, udpVars, tcpVars>>

\* how many bytes the one read is let to return: a TCP read may return fewer than arrived
ReadWants == {1, 2, MaxInitialPayloadLength, MaxInitialPayloadLength + 1}

NextFastOpen ==
    \/ NoFastOpen
    \/ \E ok \in BOOLEAN : SetInitialReadDeadline(ok)
    \/ \E want \in ReadWants : InitialRead(want)
    \/ \E dialOk \in BOOLEAN, saltOk \in BOOLEAN : DialServer(dialOk, saltOk)

InitFastOpenSpec ==
    /\ InitFastOpen /\ ups = [pc |-> "off"] /\ stc = [pc |-> "off"]
    /\ CipherIdle /\ SealersIdle /\ UdpIdle /\ TcpIdle

SpecFastOpen == InitFastOpenSpec /\ [][NextFastOpen]_vars

----------------------------------------------------------------------------
(* tcp.go: NewSession, Session.updateActivity, and the two tasks that call it *)

MaxClock == 3        \* seconds that pass while one session is followed

IdleUpdater == [pc |-> "off", ok |-> FALSE, now |-> 0]

\* loadOrStoreSession is about to call NewSession for a client
InitActivity ==
    ups = [pc |-> "new", created |-> 0, lastActive |-> 0,
           relay |-> IdleUpdater, reader |-> IdleUpdater]

\* a second passes
Second ==
    /\ clock < MaxClock
    /\ clock' = clock + 1
    /\ UNCHANGED <<ups, call, stc>>
    /\ UNCHANGED <<ctxDone, lnClosed, sessionMap, sess, task, closer, mon, tickPending>>
    /\ UNCHANGED <<cipherVars, sealers, tcpVars>>

\* NewSession: lastActive: time.Now().Unix(); go s.relayFromServer()
SessionCreate ==
    /\ ups.pc = "new"
    /\ ups' = [ups EXCEPT !.pc = "live", !.created = clock, !.lastActive = clock,
                          !.relay = [IdleUpdater EXCEPT !.pc = "idle"],
                          !.reader = [IdleUpdater EXCEPT !.pc = "idle"]]
    /\ UNCHANGED <<call, stc>>
    /\ UNCHANGED udpVars
    /\ UNCHANGED <<cipherVars, sealers, tcpVars>>

\* wrapAndWrite up to the result of serverConn.Write: updateActivity comes next when it
\* succeeded; when HandleInbound, wrap or Write failed it returns the error and Relay closes
\* the session
WrapAndWrite(ok) ==
    /\ ups.pc = "live" /\ ups.relay.pc = "idle"
    /\ ups' = [ups EXCEPT !.relay = [pc |-> IF ok THEN "update" ELSE "failed", ok |-> ok,
                                     now |-> @.now]]
    /\ UNCHANGED <<call, stc>>
    /\ UNCHANGED udpVars
    /\ UNCHANGED <<cipherVars, sealers, tcpVars>>

\* relayFromServer, one iteration up to the result of ln.WriteTo: updateActivity comes next
\* when it succeeded; when Read, unwrap, HandleOutbound or WriteTo failed the reader returns
ReadAndWriteBack(ok) ==
    /\ ups.pc = "live" /\ ups.reader.pc = "idle"
    /\ ups' = [ups EXCEPT !.reader = [pc |-> IF ok THEN "update" ELSE "failed", ok |-> ok,
                                      now |-> @.now]]
    /\ UNCHANGED <<call, stc>>
    /\ UNCHANGED udpVars
    /\ UNCHANGED <<cipherVars, sealers, tcpVars>>

\* updateActivity, the argument: time.Now().Unix()
UpdateNow(t) ==
    /\ ups.pc = "live" /\ ups[t].pc = "update"
    /\ ups' = [ups EXCEPT ![t].pc = "store", ![t].now = clock]
    /\ UNCHANGED <<call, stc>>
    /\ UNCHANGED udpVars
    /\ UNCHANGED <<cipherVars, sealers, tcpVars>>

\* updateActivity, the call: atomic.StoreInt64(&s.lastActive, ...)
UpdateStore(t) ==
    /\ ups.pc = "live" /\ ups[t].pc = "store"
    /\ ups' = [ups EXCEPT ![t].pc = "idle", !.lastActive = ups[t].now]
    /\ UNCHANGED <<call, stc>>
    /\ UNCHANGED udpVars
    /\ UNCHANGED <<cipherVars, sealers, tcpVars>>

NextActivity ==
    \/ Second
    \/ SessionCreate
    \/ \E ok \in BOOLEAN : WrapAndWrite(ok)
    \/ \E ok \in BOOLEAN : ReadAndWriteBack(ok)
    \/ \E t \in {"relay", "reader"} : UpdateNow(t)
    \/ \E t \in {"relay", "reader"} : UpdateStore(t)

InitActivitySpec ==
    /\ InitActivity /\ call = [fn |-> "none"] /\ stc = [pc |-> "off"]
    /\ CipherIdle /\ SealersIdle /\ UdpIdle /\ TcpIdle

SpecActivity == InitActivitySpec /\ [][NextActivity]_vars

----------------------------------------------------------------------------
(* Properties of the UDP engine *)

\* C1: a session is removed from the table only once it is closed: every session that was
\* stored and whose upstream socket is still open is the one stored under its client address.
OpenSessionsStayInTable ==
    \A s \in SessIds :
        (sess[s].stored /\ ~sess[s].closed) => sessionMap[sess[s].addr] = s

\* C2: a caller of loadOrStoreSession that lost the race has closed its own session, and the
\* winner it was handed stays in the table under that address for as long as it is open.
RaceLeavesWinner ==
    \A p \in Callers :
        (task[p].pc = "ret" /\ task[p].lost) =>
            /\ sess[task[p].mine].closed
            /\ ~sess[task[p].s].closed => sessionMap[task[p].addr] = task[p].s

ShutdownDone ==
    /\ ctxDone
    /\ task["relay"].pc = "defer"
    /\ closer["defer"].pc = "done" /\ closer["watcher"].pc = "done"
    /\ mon.pc = "stopped"

\* C4: once shutdown has run to its end, the listener is closed and every session that was
\* ever created has its upstream socket closed.
ShutdownClosesAll ==
    ShutdownDone => lnClosed /\ \A s \in SessIds : sess[s].closed

\* C5: when Relay returns because cancellation closed the listener, it returns nil.
CancelReturnsNil ==
    (task["relay"].pc = "defer" /\ ctxDone /\ task["relay"].err = "closed")
        => task["relay"].res = "nil"

\* C6: after a listener error other than the closed-listener error, Relay has stopped and
\* returned an error; it is not back at ReadFrom.
ListenerErrorFatal ==
    task["relay"].err = "other" =>
        task["relay"].pc = "defer" /\ task["relay"].res \notin {"none", "nil"}

----------------------------------------------------------------------------
(* Properties of the cipher context *)

\* C7: while every ciphertext comes from Seal and is opened by Open in the order sealed,
\* untouched, each Open succeeds and returns the payload that was sealed.
RoundTrip ==
    (cstat.lock /\ lastOpen.kind = "Open") =>
        lastOpen.err = "nil" /\ lastOpen.pt = lastOpen.want

\* C7 witness: two payloads have been sealed and opened in lockstep
RoundTripWitness ==
    cstat.lock /\ cstat.opens >= 2 /\ lastOpen.kind = "Open" /\ lastOpen.pt = lastOpen.want

\* C8: the counter is 12 bytes, zero when fresh, and after N advances it is the
\* little-endian encoding of N; one Count adds exactly 1 modulo 2^96, across byte carries
\* and from 2^96 - 1 back to zero.
NonceMonotonic ==
    /\ Len(enCipher.counter) = NonceSize
    /\ enCipher.counter = LE(cstat.adv)
    /\ probe.buf = AddLE(probe.start, probe.n)

\* C8 witness: Seals have advanced the counter, and a Count has wrapped 2^96 - 1 to zero
NonceMonotonicWitness ==
    /\ cstat.adv >= 2 /\ enCipher.counter[1] = cstat.adv
    /\ probe.start = AllFF /\ probe.n = 1 /\ probe.buf = NewCounter

\* C9: an Open of a ciphertext sealed K >= 1 counter values ahead of the decrypt side's
\* counter fails with an error and returns no plaintext.
DesyncDetected ==
    (lastOpen.kind = "Open" /\ lastOpen.skew >= 1) =>
        lastOpen.err # "nil" /\ lastOpen.pt = "nil"

\* C9 witness: such an Open has happened and failed
DesyncWitness ==
    lastOpen.kind = "Open" /\ lastOpen.skew >= 1 /\ lastOpen.err # "nil"

\* C10: the decrypt counter counts the successful Open and OpenWithNonce calls: a failed
\* one leaves it unchanged, a successful one advances it by exactly 1.
OpenCounterEffect == deCipher.counter = LE(cstat.opens)

\* C10 witness: an OpenWithNonce has failed after an earlier call succeeded
OpenCounterWitness ==
    lastOpen.kind = "OpenWithNonce" /\ lastOpen.err # "nil" /\ cstat.opens >= 1

\* C11: within one cipher context no two Seal calls encrypt under the same nonce, however
\* the Seal calls of concurrent tasks interleave.
NonceNeverReused ==
    \A i, j \in 1 .. Len(wire) :
        i # j => wire[i].box.nonce # wire[j].box.nonce

----------------------------------------------------------------------------
(* Properties of the SOCKS5 negotiation *)

FailureReply == <<5, 7, 0, 1, 0, 0, 0, 0, 0, 0>>
SuccessReply == <<5, 0, 0, 1, 0, 0, 0, 0, 0, 0>>

\* no-auth is among the method bytes the client sent
OffersNoAuth(methods) == \E i \in 1 .. Len(methods) : methods[i] = 0

\* C12: once VER and NMETHODS are read, a VER other than 5 ends the negotiation with
\* ErrVersionNotSupported, and VER 5 with NMETHODS 0 ends it with ErrMethodsCount; in both
\* cases nothing has been written and exactly the two bytes have been read.
HeadRejected ==
    (s5.mode = "socks5" /\ s5.ver # -1) =>
        /\ s5.ver # 5 =>
              /\ s5.pc = "done" /\ ErrorsIs(s5.err, "ErrVersionNotSupported")
              /\ s5.conn.out = << >> /\ s5.conn.nread = 2
        /\ (s5.ver = 5 /\ s5.nMethods = 0) =>
              /\ s5.pc = "done" /\ ErrorsIs(s5.err, "ErrMethodsCount")
              /\ s5.conn.out = << >> /\ s5.conn.nread = 2

\* C12 witness: a negotiation ended on NMETHODS = 0
HeadRejectedWitness ==
    s5.pc = "done" /\ s5.ver = 5 /\ s5.nMethods = 0 /\ ErrorsIs(s5.err, "ErrMethodsCount")

\* C13: once the NMETHODS method bytes are read and the method reply is written, the reply
\* is {5, 0} and the negotiation goes on if no-auth is among those bytes, and otherwise
\* the reply is {5, 255}, nothing else is written and the negotiation has ended with
\* ErrNoAcceptableMethods.
MethodSelection ==
    (s5.methods # << >> /\ s5.conn.out # << >>) =>
        IF OffersNoAuth(s5.methods)
        THEN /\ s5.conn.out[1] = [bytes |-> <<5, 0>>, at |-> 2 + s5.nMethods]
             /\ ~ErrorsIs(s5.err, "ErrNoAcceptableMethods")
        ELSE /\ s5.conn.out = <<[bytes |-> <<5, 255>>, at |-> 2 + s5.nMethods]>>
             /\ s5.pc = "done" /\ ErrorsIs(s5.err, "ErrNoAcceptableMethods")

\* C14: a negotiation whose request carried a CMD other than CONNECT has ended with
\* ErrCommandNotSupported and has written the failure reply after the method reply and
\* nothing else, whatever followed the request.
CommandRejected ==
    (s5.pc = "done" /\ s5.cmd \notin {-1, 1} /\ ~s5.wfail) =>
        /\ ErrorsIs(s5.err, "ErrCommandNotSupported")
        /\ Len(s5.conn.out) = 2 /\ s5.conn.out[2].bytes = FailureReply

TunnelReturnsForward ==
    s5.mode = "tunnel" =>
        /\ s5.conn = NewConn
        /\ s5.pc = "done" => s5.addr = s5.forward /\ s5.addr \in ForwardAddrs /\ s5.err = NoErr

\* C16 witness: a tunnel handshake has returned
TunnelWitness == s5.mode = "tunnel" /\ s5.pc = "done" /\ s5.addr.Port = 53

----------------------------------------------------------------------------
(* Properties of the server handshake *)

\* the header reached parseResponseFLH with the fields the server meant
HeaderParsed == shs.pc = "done" /\ shs.res.parsed

\* |now - timestamp| in milliseconds
SkewMs == IF shs.nowMs >= shs.ts * 1000 THEN shs.nowMs - shs.ts * 1000
          ELSE shs.ts * 1000 - shs.nowMs

\* C17: a server header of type 1 whose timestamp is more than 30 s from now, in the past
\* or in the future, fails parsing with the timestamp error.
TimestampWindow ==
    (HeaderParsed /\ shs.ht = 1 /\ SkewMs > 30000) =>
        shs.res.parseErr = Err("timestamp skewed")

\* C18: a server header of a type other than 1 fails with ErrHeaderType; a header of type 1
\* whose timestamp is within 30 s of now parses without error exactly when the echoed
\* salt equals the client's salt byte for byte, and fails with the salt error otherwise.
SaltEcho ==
    HeaderParsed =>
        /\ shs.ht # 1 => shs.res.parseErr = Err("ErrHeaderType")
        /\ (shs.ht = 1 /\ SkewMs <= 30000) =>
              /\ shs.res.parseErr = NoErr <=> shs.echo = ClientSalt
              /\ shs.echo # ClientSalt => shs.res.parseErr = Err("request Salt mismatched")

\* C18 witness: an echoed salt that differs from the client's in its last byte was refused
SaltEchoWitness ==
    /\ HeaderParsed /\ shs.ht = 1 /\ SkewMs <= 30000
    /\ shs.echo # ClientSalt /\ shs.echo[1] = ClientSalt[1]
    /\ shs.res.err = Err("request Salt mismatched")

----------------------------------------------------------------------------
(* Properties of the bridge *)

BridgeClosed == bridge.pc = "returned" /\ bridge.connClosed /\ bridge.stcClosed

\* C19: once reading or validating the server handshake has failed, no byte from the
\* server is ever written to the inbound connection, and the bridge goes on to return
\* with the inbound connection and the server connection both closed.
HandshakeFailureFatal ==
    /\ [](bridge.hs = "failed" => bridge.toInbound = 0)
    /\ [](bridge.pc = "returned" => bridge.connClosed /\ bridge.stcClosed)
    /\ (bridge.hs = "failed" ~> BridgeClosed)

\* C19 witness: a bridge whose server handshake failed has returned
HandshakeFailureWitness ==
    bridge.hs = "failed" /\ BridgeClosed /\ ~bridge.ctxDone /\ bridge.up = "read"

\* C20: once a copy loop has ended or the caller's context is cancelled, Stream goes on to
\* return with the inbound connection and the server connection both closed.
BridgeEnds ==
    (bridge.down = "done" \/ bridge.up = "done" \/ bridge.ctxDone) ~> BridgeClosed

\* C20 witness: a bridge that copied in both directions has returned after cancellation
BridgeEndsWitness ==
    /\ BridgeClosed /\ bridge.ctxDone /\ bridge.watcher = "done"
    /\ bridge.toInbound >= 1 /\ bridge.toServer >= 1


\* the listener loop takes a step of its handling of a failed wrapAndWrite for client a
RelayFailureStep(a) ==
    /\ task["relay"].pc \in {"failClose", "failDelete"} /\ task["relay"].addr = a
    /\ task'["relay"] # task["relay"]

\* the reader of session s takes a step of its deferred Close and Delete
ReaderFailureStep(s) ==
    /\ sess[s].rpc \in {"exit", "delete"} /\ sess'[s].rpc # sess[s].rpc

\* nothing of the clients other than a changes, and the listener loop is where it was
OthersUntouched(a) ==
    /\ \A b \in Addrs \ {a} : sessionMap'[b] = sessionMap[b]
    /\ \A s \in SessIds : sess[s].addr # a => sess'[s] = sess[s]
    /\ Len(sess') = Len(sess)

----------------------------------------------------------------------------
(* Properties of the UDP packet format *)

\* the low 8 bytes of a counter that has been advanced n times from zero
CounterLow(n) == SubSeq(LE(n), 1, 8)

\* C21: the k-th packet a session wraps carries, under the block cipher, the 16-byte header
\* salt || low 8 bytes of the counter = k, its body is sealed under bytes 4..15 of that
\* header, and no two packets of the session share a header or a nonce.
SeparateHeaderPerPacket ==
    ups.pc # "off" =>
        /\ \A i \in 1 .. Len(ups.sent) :
              LET h == BlockDecrypt(StreamKey, ups.sent[i].head)
              IN  /\ Len(h) = 16
                  /\ SubSeq(h, 1, 8) = SessionSalt
                  /\ SubSeq(h, 9, 16) = CounterLow(ups.base + i - 1)
                  /\ ups.sent[i].body.nonce = SubSeq(h, 5, 16)
                  /\ ups.sent[i].body.tag = "ok"
        /\ \A i, j \in 1 .. Len(ups.sent) :
              i # j => /\ ups.sent[i].head # ups.sent[j].head
                       /\ ups.sent[i].body.nonce # ups.sent[j].body.nonce

\* C21 witness: a session has wrapped two packets across a carry of the counter's low byte
SeparateHeaderWitness ==
    /\ ups.pc # "off" /\ ups.base = 255 /\ Len(ups.sent) = 2
    /\ BlockDecrypt(StreamKey, ups.sent[2].head)[10] = 1


\* what the claim asks of a server packet: sealed as the session expects, type 1, a timestamp
\* within 30 s either way, the session's salt echoed, the declared padding inside the body
PacketValid(pk, nowMs) ==
    /\ pk.fault = "none"
    /\ pk.ht = 1
    /\ pk.ts * 1000 - nowMs <= 30000 /\ nowMs - pk.ts * 1000 <= 30000
    /\ pk.echo = SessionSalt
    /\ 19 + pk.pl <= Len(pk.msg)

LazyDecryptContext ==
    (ups.pc # "off" /\ ups.first.kind = "ok") =>
        /\ ups.deCipher # NoCipher
        /\ ups.deCipher.salt = ups.first.used.salt
        /\ (ups.nrecv > 1 /\ ups.last.kind = "ok") =>
              /\ ~ups.last.derived
              /\ ups.last.used.salt = ups.first.used.salt

----------------------------------------------------------------------------
(* Properties of the UDP packet handlers, of Padding, of NewCipher *)

\* C24: the SOCKS5 handler's HandleInbound fails for fewer than 3 bytes and otherwise
\* returns the packet without its first 3 bytes; its HandleOutbound returns three zero
\* bytes and the packet; HandleInbound of that is the packet. The tunnel handler's
\* HandleInbound returns the encoded forward address and the packet; its HandleOutbound
\* takes one encoded address off the front; HandleOutbound of HandleInbound is the packet.
HandlerRoundTrips ==
    /\ (call.fn = "socks5" /\ call.dir = "in") =>
          IF Len(call.in) < 3 THEN call.res.err # NoErr /\ call.res.out = << >>
          ELSE /\ call.res.err = NoErr
               /\ Len(call.res.out) = Len(call.in) - 3
               /\ \A i \in 1 .. Len(call.res.out) : call.res.out[i] = call.in[i + 3]
    /\ (call.fn = "socks5" /\ call.dir = "out") =>
          /\ call.res.err = NoErr
          /\ Len(call.res.out) = Len(call.in) + 3
          /\ \A i \in 1 .. 3 : call.res.out[i] = 0
          /\ \A i \in 1 .. Len(call.in) : call.res.out[i + 3] = call.in[i]
    /\ (call.fn = "socks5" /\ call.dir = "out-in") =>
          call.res.err = NoErr /\ call.res.out = call.in
    /\ (call.fn = "tunnel" /\ call.dir = "in") =>
          call.res.err = NoErr /\ call.res.out = AddrBytes(call.forwardAddr) \o call.in
    /\ (call.fn = "tunnel" /\ call.dir = "out") =>
          \A a \in WellFormedAddrs, q \in ShortPackets :
              call.in = AddrBytes(a) \o q => call.res.err = NoErr /\ call.res.out = q
    /\ (call.fn = "tunnel" /\ call.dir = "in-out") =>
          call.res.err = NoErr /\ call.res.out = call.in

\* C24 witness: the tunnel handler gave back a packet that itself begins like an address,
\* sent to a forward address that is a domain name
HandlerRoundTripsWitness ==
    /\ call.fn = "tunnel" /\ call.dir = "in-out"
    /\ call.forwardAddr.ATYP = AtypDomain
    /\ call.in \in AddressedPackets /\ call.res.out = call.in


\* the smaller of two numbers
Least(a, b) == IF a <= b THEN a ELSE b

\* C25: Padding(min, max) with min <= max returns no error and a buffer that is a 2-byte
\* big-endian length L followed by exactly L bytes, with min <= L <= min(max, 0xFFFD), so
\* 1 <= L <= 900 for the stream handshake's (1, 900); with min > max it returns an error
\* and no buffer.
PaddingBounds ==
    call.fn = "Padding" =>
        IF call.min <= call.max
        THEN /\ call.res.kind = "ok"
             /\ Len(call.res.buf) >= 2
             /\ LET L == BigEndianUint(SubSeq(call.res.buf, 1, 2))
                IN  /\ Len(call.res.buf) = 2 + L
                    /\ call.min <= L /\ L <= Least(call.max, 65533)
        ELSE call.res.kind = "err" /\ call.res.buf = << >>

\* C26: NewCipher returns a context exactly for aes-128-gcm with a 16-byte key and for
\* aes-256-gcm and chacha20-poly1305 with a 32-byte key; for one of these methods with a
\* key of another length it returns the invalid-key-size error, for any other method the
\* unsupported-method error, and with either error no context.
CipherPreconditions ==
    call.fn = "NewCipher" =>
        LET supported == call.method \in {"2022-blake3-aes-128-gcm", "2022-blake3-aes-256-gcm",
                                          "2022-blake3-chacha20-poly1305"}
            fits == \/ call.method = "2022-blake3-aes-128-gcm" /\ call.key.len = 16
                    \/ call.method = "2022-blake3-aes-256-gcm" /\ call.key.len = 32
                    \/ call.method = "2022-blake3-chacha20-poly1305" /\ call.key.len = 32
        IN  /\ fits => /\ call.res.err = "nil"
                       /\ call.res.c.key = call.key /\ call.res.c.salt = call.salt
                       /\ call.res.c.method = call.method
                       /\ call.res.c.counter = Repeat(0, 12)
            /\ (supported /\ ~fits) =>
                  call.res.err = "ErrCipherKeySize" /\ call.res.c = NoCipher
            /\ ~supported => call.res.err = "ErrCipherMethod" /\ call.res.c = NoCipher

\* C26 witness: a 32-byte key was refused for aes-128-gcm
CipherPreconditionsWitness ==
    /\ call.fn = "NewCipher" /\ call.method = "2022-blake3-aes-128-gcm"
    /\ call.key.len = 32 /\ call.res.err = "ErrCipherKeySize"

----------------------------------------------------------------------------
(* Properties of the stream connection *)

\* the box Seal makes of plaintext pt on the stream connection's context at counter n
SealedAt(n, pt) ==
    [subkey |-> <<StreamKey.id, ClientSalt>>, alg |-> StreamMethod, nonce |-> LE(n),
     pt |-> pt, tag |-> "ok"]

\* C27: Seals(dst, p1, ..., pk) on a context at counter base returns dst followed by p1 sealed
\* at base, ..., pk sealed at base+k-1 and leaves the counter at base+k; the handshake
\* record written is the salt, the 11-byte fixed header sealed at counter 0 with the
\* length of the variable header in it, and the variable header (address, padding,
\* initial payload) sealed at counter 1, and the counter is 2 once it has been written.
HandshakeLayout ==
    /\ call.fn = "Seals" =>
          LET k == Len(call.plaintexts)
              d == Len(call.dst)
          IN  /\ Len(call.res.out) = d + k
              /\ SubSeq(call.res.out, 1, d) = call.dst
              /\ \A i \in 1 .. k :
                    call.res.out[d + i] = SealedAt(call.base + i - 1, call.plaintexts[i])
              /\ call.res.c.counter = LE(call.base + k)
    /\ (stc.pc = "open" /\ stc.nwrites = 0 /\ stc.nreads = 0) =>
          LET h == stc.handshake
              vlh == AddrBytes(h.targetAddr) \o h.pad \o h.initialPayload
          IN  /\ stc.enCipher.counter = LE(2)
              /\ h.err = NoErr =>
                    /\ Len(h.wrote) = Len(ClientSalt) + 2
                    /\ SubSeq(h.wrote, 1, Len(ClientSalt)) = ClientSalt
                    /\ h.wrote[Len(ClientSalt) + 1] =
                          SealedAt(0, <<0>> \o BigEndian(NowSeconds, 8)
                                          \o <<Len(vlh) \div 256, Len(vlh) % 256>>)
                    /\ h.wrote[Len(ClientSalt) + 2] = SealedAt(1, vlh)
                    /\ Len(h.pad) >= 3 /\ Len(h.pad) <= 902

\* C27 witness: the handshake for a domain target with an initial payload has been written
HandshakeLayoutWitness ==
    /\ stc.pc = "open" /\ stc.nwrites = 0 /\ stc.nreads = 0
    /\ stc.handshake.err = NoErr /\ Len(stc.handshake.wrote) = 18
    /\ stc.handshake.targetAddr.ATYP = AtypDomain
    /\ stc.handshake.initialPayload = <<1, 2>>

EarlyPayloadFirst ==
    (stc.pc = "open" /\ stc.nreads > 0) =>
        LET d == stc.delivered
            n == IF Len(d) < stc.l THEN Len(d) ELSE stc.l
        IN  /\ SubSeq(d, 1, n) = SubSeq(EarlyPayload, 1, n)
            /\ stc.nchunks > 0 => Len(d) >= stc.l
            /\ (stc.l = 0 /\ d # << >>) => stc.nchunks > 0 /\ d[1] = FramePayload(1)[1]
            /\ (stc.l > 0 /\ stc.lastRead.err = NoErr) =>
                  Len(stc.handshakePayload) + n = stc.l

\* C29 witness: the early payload went out in two Read calls and a chunk followed
EarlyPayloadFirstWitness ==
    /\ stc.pc = "open" /\ stc.nreads = 3 /\ stc.l = 3 /\ stc.nchunks = 1
    /\ SubSeq(stc.delivered, 1, 3) = EarlyPayload /\ Len(stc.delivered) > 3


\* C36: whatever datagram the reader hands to unwrap, of 16 bytes or more or of fewer,
\* unwrap comes back with a payload or with an error value; it never fails outside its
\* error return.
UnwrapReturns ==
    (ups.pc # "off" /\ ups.nrecv > 0) => ups.last.kind \in {"ok", "err"}

\* C40: the body of every packet a session wraps is 0x00, the 8-byte timestamp, a 2-byte
\* length, that many bytes of padding, and the payload: skipping the declared number of
\* bytes after the length field lands on the first byte of the payload.
ClientPaddingConsistent ==
    ups.pc # "off" =>
        \A i \in 1 .. Len(ups.sent) :
            LET msg == ups.sent[i].body.pt
                declared == BigEndianUint(SubSeq(msg, 10, 11))
            IN  /\ msg[1] = HeaderTypeClientPacket
                /\ SubSeq(msg, 2, 9) = BigEndian(NowSeconds, 8)
                /\ declared >= 3 /\ declared <= UdpPaddingMax + 1
                /\ Len(msg) = 11 + declared + Len(UdpPayload)
                /\ SubSeq(msg, 11 + declared + 1, Len(msg)) = UdpPayload
                /\ ups.sent[i].len = SeparateHeaderLen + Len(msg) + 16

\* C40 witness: a packet has been wrapped with the longest padding Padding(1, 100) gives
ClientPaddingConsistentWitness ==
    /\ ups.pc # "off" /\ Len(ups.sent) > 0
    /\ BigEndianUint(SubSeq(ups.sent[1].body.pt, 10, 11)) = UdpPaddingMax + 1


\* the payloads of the server's first k framed chunks, one after the other
RECURSIVE ChunkBytes(_)
ChunkBytes(k) == IF k = 0 THEN << >> ELSE ChunkBytes(k - 1) \o FramePayload(k)

\* C34: once the server's handshake is accepted, what the Read calls have returned so far,
\* whatever the sizes of their buffers, is the early payload as far as it has been taken
\* followed by the whole payloads of the chunks opened, in order: no byte dropped, none
\* twice.
StreamReadIntegrity ==
    (stc.pc = "open" /\ stc.nreads > 0 /\ stc.attempt.err = NoErr) =>
        stc.delivered = SubSeq(EarlyPayload, 1, stc.l - Len(stc.handshakePayload))
                            \o ChunkBytes(stc.nchunks)

\* C35: whatever Read calls are made, the server handshake is attempted once, and when that
\* attempt failed every Read returns an error and no bytes, and none of them opens a chunk
\* with a decrypt context that was never created.
HandshakeFailureSticks ==
    (stc.pc = "open" /\ stc.nreads > 0) =>
        /\ stc.attempt.n = 1
        /\ stc.attempt.err # NoErr =>
              /\ stc.lastRead.err # NoErr /\ stc.lastRead.n = 0
              /\ stc.delivered = << >> /\ stc.nchunks = 0
              /\ stc.lastRead.err # Err("nil pointer dereference")


\* C39: whatever the target (up to a domain name of 255 bytes), the padding and the initial
\* payload (up to 8192 bytes), the variable header written is shorter than 2^16 bytes and
\* the 2-byte length at the end of the 11-byte fixed header is its exact length.
LengthFieldExact ==
    (stc.pc = "open" /\ stc.handshake.err = NoErr /\ stc.handshake.wrote # << >>) =>
        LET h == stc.handshake
            flh == h.wrote[Len(ClientSalt) + 1].pt
            vlh == h.wrote[Len(ClientSalt) + 2].pt
        IN  /\ Len(flh) = 11
            /\ Len(vlh) = Len(AddrBytes(h.targetAddr)) + Len(h.pad) + Len(h.initialPayload)
            /\ Len(vlh) < 65536
            /\ BigEndianUint(SubSeq(flh, 10, 11)) = Len(vlh)

\* C39 witness: the handshake for the longest target, padding and initial payload
LengthFieldExactWitness ==
    /\ stc.pc = "open" /\ stc.handshake.err = NoErr /\ stc.handshake.wrote # << >>
    /\ Len(stc.handshake.targetAddr.Addr) = 255
    /\ Len(stc.handshake.initialPayload) = MaxInitialPayloadLength
    /\ Len(stc.handshake.wrote[Len(ClientSalt) + 2].pt) = 259 + 901 + 8192


----------------------------------------------------------------------------
(* Properties of a session's last activity *)

\* the task that is storing, if the step changes lastActive
Storing(t) == ups.pc = "live" /\ ups[t].pc = "store" /\ ups'[t].pc = "idle"

\* C31: a session starts with lastActive at its creation time; lastActive changes only in
\* the store of a task whose send or write-back succeeded; it is never below the creation
\* time; and, the clock never going back, it never decreases.
LastActivityMonotone ==
    [][/\ (ups.pc = "new" /\ ups'.pc = "live") =>
              ups'.lastActive = clock /\ ups'.created = clock
       /\ ups.pc = "live" =>
              /\ ups'.lastActive >= ups'.created
              /\ ups'.lastActive # ups.lastActive =>
                    \E t \in {"relay", "reader"} : Storing(t) /\ ups[t].ok
              /\ ups'.lastActive >= ups.lastActive]_vars

\* what holds of lastActive whatever the interleaving: it starts at the creation time,
\* changes only to the reading of a task whose send or write-back succeeded, and stays
\* between the creation time and the clock
LastActivityBounds ==
    [][/\ (ups.pc = "new" /\ ups'.pc = "live") =>
              ups'.lastActive = clock /\ ups'.created = clock
       /\ ups.pc = "live" =>
              /\ ups'.lastActive >= ups'.created /\ ups'.lastActive <= clock'
              /\ ups'.lastActive # ups.lastActive =>
                    \E t \in {"relay", "reader"} :
                        Storing(t) /\ ups[t].ok /\ ups'.lastActive = ups[t].now]_vars


----------------------------------------------------------------------------
(* Properties of the inbound connection's deadlines *)

BridgeTasksEnd ==
    (bridge.pc = "returned") ~>
        (bridge.watcher = "done" /\ bridge.down = "done" /\ bridge.up = "done")


\* C38: when NewShadowTCPConn or NewRelayer has returned an error, the socket it opened, if
\* it opened one, is closed.
ConstructorsCloseOnError ==
    (call.fn \in {"NewShadowTCPConn", "NewRelayer"} /\ call.res.err # NoErr) => ~call.res.open


----------------------------------------------------------------------------
(* Properties of the fast-open initial read *)

ReadTimedOutEmpty == call.reads = 1 /\ call.read.n = 0 /\ IsTimeout(call.read.err)
ReadFailedEmpty == call.reads = 1 /\ call.read.n = 0 /\ call.read.err # NoErr
                   /\ ~IsTimeout(call.read.err)

\* C33: with fast-open the initial payload is the bytes one read on the inbound connection
\* returned under a read deadline 50 ms ahead, at most 8192 of them; a read that timed out
\* with no data leaves the payload empty and reports no error; a read that failed otherwise
\* with no data ends the connection with no server connection dialed; and no read deadline
\* is set when the stream to the server starts.
FastOpenInitialRead ==
    call.fn = "handleConnection" =>
        /\ call.reads <= 1
        /\ (call.pc \in {"dial", "stream"} /\ call.fastOpen) =>
              /\ call.reads = 1
              /\ call.read.under = NowMillis + InitialPayloadTimeout
              /\ call.initialPayload = call.read.data
              /\ Len(call.initialPayload) <= MaxInitialPayloadLength
        /\ (call.pc \in {"dial", "stream"} /\ ~call.fastOpen) =>
              call.reads = 0 /\ call.initialPayload = << >>
        /\ ReadTimedOutEmpty =>
              /\ call.initialPayload = << >> /\ call.payloadErr = NoErr
              /\ call.pc = "dial" => call.err = NoErr /\ ~call.connClosed
        /\ ReadFailedEmpty =>
              /\ call.payloadErr = call.read.err /\ call.err = call.read.err
              /\ call.pc = "returned" /\ ~call.dialed /\ call.connClosed
        /\ call.pc = "stream" => call.readDeadline = 0 /\ call.dialed

FastOpenInitialReadWitness ==
    /\ call.fn = "handleConnection" /\ call.pc = "stream" /\ call.fastOpen
    /\ Len(call.initialPayload) = MaxInitialPayloadLength /\ Len(call.inbound) = 1

====
